---- MODULE Spec2Model ----
(***************************************************************************)
(* KernMLOps kernel control-flow instrumentation: the BPF probe handlers   *)
(* of the tcp_v4_connect, zswap, page-fault and madvise/munmap tracers,    *)
(* their correlation stores (BPF_HASH), aggregate counters (BPF_ARRAY,     *)
(* BPF_HASH) and event channels (BPF_PERF_OUTPUT).                         *)
(*                                                                         *)
(* Every .bpf.c file is a BPF program of its own, loaded on its own and    *)
(* sharing no map with the others: a behaviour runs one loaded program     *)
(* (prog), chosen in Init.                                                 *)
(***************************************************************************)
EXTENDS Integers, Sequences, FiniteSets, TLC

(* ------------------------------ bounds -------------------------------- *)

\* Threads (execution contexts) that can hit a probe.
NumPids == 2
\* Capacity of every BPF_HASH, scaled down from BCC's 10240 / 32768.
MaxEntries == 1
\* Capacity (in records) of every perf event channel.
ChannelCap == 2
\* Number of bpf_ktime_get_ns() reads in a behaviour.
MaxClockReads == 3
\* Nanoseconds between two consecutive reads of the monotonic clock.
TickNs == 600
\* Number of trace_tcp_rcv_state_process executions in a behaviour.
MaxCalls == 3

(* ------------------- constants of tcp_v4_connect.bpf.c ---------------- *)

CONNECT_ENTRY == 0
CONNECT_INVALID_ADDRLEN == 1
CONNECT_WRONG_FAMILY == 2
CONNECT_ROUTE_ERROR == 3
CONNECT_MULTICAST_BCAST == 4
CONNECT_NO_SRC_ADDR == 5
CONNECT_TS_RESET == 6
CONNECT_REPAIR_MODE == 7
CONNECT_HASH_ERROR == 8
CONNECT_FASTOPEN_DEFER == 9
CONNECT_TCP_CONNECT_ERR == 10
CONNECT_ENETUNREACH == 11
CONNECT_NEW_SPORT == 12
CONNECT_WRITE_SEQ_INIT == 13
CONNECT_SUCCESS == 14
CONNECT_SRC_BIND_FAIL == 15
CONNECT_PORT_EXHAUSTED == 16
CONNECT_ROUTE_LOOKUP == 17
CONNECT_PORT_ALLOC == 18
CONNECT_REGULAR_SYN == 19
CONNECT_ERROR_PATH == 20

PATH_FAST == 0
PATH_SLOW == 1
PATH_ERROR == 2
PATH_FASTOPEN == 3

ERR_NONE == 0
ERR_EINVAL == -22
ERR_EAFNOSUPPORT == -97
ERR_ENETUNREACH == -101

\* BPF_ARRAY sizes.
BranchStatsSize == 32
PathStatsSize == 4
ErrorStatsSize == 8

(* --------- constants of tcp_v4_rcv.bpf.c and its extended version ------ *)

TCP_BRANCH_ENTRY == 0
TCP_BRANCH_NOT_FOR_HOST == 1
TCP_BRANCH_NO_SOCKET == 2
TCP_BRANCH_TIME_WAIT == 3
TCP_BRANCH_CHECKSUM_ERR == 4
TCP_BRANCH_LISTEN == 5
TCP_BRANCH_SOCKET_BUSY == 6
TCP_BRANCH_XFRM_DROP == 7
TCP_BRANCH_NEW_SYN_RECV == 8
TCP_BRANCH_PKT_TOO_SMALL == 9
TCP_BRANCH_MIN_TTL_DROP == 10
TCP_BRANCH_SOCKET_FILTER == 11
TCP_BRANCH_DO_RCV_CALL == 12
TCP_BRANCH_MD5_FAIL == 13
TCP_BRANCH_BACKLOG_ADD == 14
TCP_BRANCH_REQ_STOLEN == 15
TCP_BRANCH_LISTEN_DROP == 16
TCP_BRANCH_RST_SENT == 17
TCP_BRANCH_ESTABLISHED == 18

SKB_DROP_REASON_NOT_SPECIFIED == 2
SKB_DROP_REASON_NO_SOCKET == 3
SKB_DROP_REASON_PKT_TOO_SMALL == 4
SKB_DROP_REASON_TCP_CSUM == 5
SKB_DROP_REASON_SOCKET_FILTER == 6
SKB_DROP_REASON_XFRM_POLICY == 14
SKB_DROP_REASON_TCP_MINTTL == 70

(* ---------------- constants of tcp_congestion_control.bpf.c ------------ *)

EVENT_ASSIGN_CC == 1
EVENT_INIT_CC == 2
EVENT_SET_CC == 3
EVENT_REINIT_CC == 4
EVENT_CLEANUP_CC == 5

(* ------------------- constants of the TCP state tracer ---------------- *)

STATE_TRANSITION == 0
STATE_ERROR == 1
STATE_PROCESSING == 2

SUBTYPE_NONE == 0
SUBTYPE_CHALLENGE_ACK == 1
SUBTYPE_RESET == 2
SUBTYPE_FAST_OPEN == 3
SUBTYPE_ACK_PROCESS == 4
SUBTYPE_DATA_QUEUE == 5
SUBTYPE_ABORT_DATA == 6

\* enum tcp_states of <net/tcp_states.h>, as far as the handlers name them.
TCP_ESTABLISHED == 1
TCP_SYN_SENT == 2
TCP_SYN_RECV == 3
TCP_FIN_WAIT1 == 4
TCP_FIN_WAIT2 == 5
TCP_TIME_WAIT == 6
TCP_LAST_ACK == 9
TCP_LISTEN == 10

(* --------------------- constants of the CUBIC tracer ------------------ *)

EVENT_CONG_AVOID == 1
EVENT_INIT == 2
EVENT_SSTHRESH == 3
EVENT_STATE_CHANGE == 4
EVENT_CWND_EVENT == 5
EVENT_ACKED == 6
EVENT_HYSTART == 7

(* ------------------------------ state --------------------------------- *)

VARIABLES
  build,                \* what the build made of the shift "tid >> 32" of a u32
  prog,                 \* the loaded BPF program
  now,                  \* the monotonic clock, in ns (bpf_ktime_get_ns)
  perf,                 \* the perf event channels: name -> [buf, lost]
  connect_start_times,  \* BPF_HASH(connect_start_times, u32, u64)
  connect_tracking,     \* BPF_HASH(connect_tracking, u32, connect_event_t)
  branch_stats,         \* BPF_ARRAY(branch_stats, u64, 32)
  path_stats,           \* BPF_ARRAY(path_stats, u64, 4)
  error_stats,          \* BPF_ARRAY(error_stats, u64, 8)
  stores,               \* BPF_HASH(stores, u64, u64)
  loads,                \* BPF_HASH(loads, u64, u64)
  invalidates,          \* BPF_HASH(invalidates, u64, u64)
  fault_entry,          \* BPF_HASH(fault_entry, u32, page_fault_info_t, 10240)
  socket_tracking,      \* BPF_HASH(socket_tracking, struct sock*, struct cc_event)
  cubic_socket_tracking, \* BPF_HASH(socket_tracking, struct sock*, struct cubic_event)
  closed,               \* the sockets that have been destroyed
  madvise_hash,         \* BPF_HASH(madvise_hash, u32, madvise_output_t, 32768)
  mm_madvise_hash,      \* madvise_hash of the madvise/munmap tracer
  munmap_hash,          \* BPF_HASH(munmap_hash, u32, madvise_output_t, 32768)
  rss_stat_hash,        \* BPF_HASH(rss_stat_hash, u32, rss_stat_output_t, 32768)
  stats_map,            \* BPF_HASH(stats_map, u32, struct tcp_state_stats)
  state_distribution,   \* BPF_HASH(state_distribution, u8, u64)
  cpu,                  \* pid -> the position of the handler running in that
                        \* context and the counter value it has loaded
  emitted,              \* history: the records the last handler execution submitted
  since_poll,           \* history: name -> [sent, polled] of each channel
  tally,                \* history of the connect tracer: events submitted with a
                        \* latency, return probes that found their record,
                        \* whether a branch probe has reported, and per thread
                        \* the terminal-outcome events since its entry probe
  incrs,                \* history: the increments the handlers executed on
                        \* branch_stats[CONNECT_ENTRY], total_calls and each
                        \* key of state_distribution
  begun,                \* history: store -> pid -> [n, rec]: the entry probes fired
                        \* since the last return probe (counted to 2) and what
                        \* the last of them captured
  last                  \* history: the last probe fired: its kind, store and
                        \* thread, and the thread's begun[..].n before it

connectMaps == <<connect_start_times, connect_tracking>>
connectStats == <<branch_stats, path_stats, error_stats>>
connectVars == <<connectMaps, connectStats>>
zswapVars == <<stores, loads, invalidates>>
madviseVars == <<madvise_hash, mm_madvise_hash, munmap_hash>>
rssVars == <<rss_stat_hash>>
tcpStateVars == <<stats_map, state_distribution>>
ccVars == <<socket_tracking>>
cubicVars == <<cubic_socket_tracking, closed>>
vars == <<prog, build, now, perf, connect_start_times, connect_tracking, branch_stats,
          path_stats, error_stats, stores, loads, invalidates, fault_entry,
          socket_tracking, cubic_socket_tracking, closed, madvise_hash, mm_madvise_hash, munmap_hash, rss_stat_hash, stats_map,
          state_distribution, cpu, emitted, since_poll, tally, incrs, begun, last>>

\* What the handlers of one program never touch: the maps of the others, and
\* (the handlers that run in one step) the positions of the contexts.
xConnect == <<zswapVars, fault_entry, ccVars, cubicVars, madviseVars, rssVars, tcpStateVars, cpu, incrs>>
xZswap == <<connectVars, fault_entry, ccVars, cubicVars, madviseVars, rssVars, tcpStateVars, cpu, incrs, tally>>
xFault == <<connectVars, zswapVars, ccVars, cubicVars, madviseVars, rssVars, tcpStateVars, cpu, incrs, tally>>
xMadvise == <<connectVars, zswapVars, fault_entry, ccVars, cubicVars, rssVars, tcpStateVars, cpu, incrs, tally>>
allMaps == <<connectVars, zswapVars, fault_entry, ccVars, cubicVars, madviseVars, rssVars, tcpStateVars>>

Pids == 1 .. NumPids

\* bpf_get_current_pid_tgid() of thread p: the thread group id in the upper 32
\* bits, the thread id (unique in the system) in the lower 32.
Tgid(p) == ((p - 1) \div 2) * 2 + 1
pid_tgid(p) == [hi |-> Tgid(p), lo |-> p]

\* "u32 tid = bpf_get_current_pid_tgid(); event.tgid = tid >> 32;": a shift of
\* a 32-bit value by 32 has no defined result. A build yields 0 (the value is
\* zero-extended and shifted out, or the expression is folded away and the
\* zeroed field is left), the value itself (the count is taken modulo 32), or
\* the upper half of the 64-bit register the value was never truncated in.
ShiftBuilds == {"zero", "count_mod_32", "reg64"}
tid_shr_32(p) ==
  CASE build = "zero" -> 0
    [] build = "count_mod_32" -> pid_tgid(p).lo
    [] OTHER -> pid_tgid(p).hi

Programs == {"tcp_v4_connect", "zswap_runtime", "page_fault", "madvise",
             "madvise_munmap", "tcp_v4_rcv", "tcp_v4_rcv_ext",
             "tcp_congestion_control"}

ChannelsOf(p) ==
  CASE p = "tcp_v4_connect" -> {"connect_events"}
    [] p = "zswap_runtime" ->
         {"zswap_store_events", "zswap_load_events", "zswap_invalidate_events"}
    [] p = "page_fault" -> {"page_fault_events"}
    [] p = "madvise" -> {"madvise_output"}
    [] p = "madvise_munmap" -> {"mm_madvise_output"}
    [] p = "tcp_v4_rcv" -> {"tcp_branch_events"}
    [] p = "tcp_v4_rcv_ext" -> {"ext_tcp_branch_events"}
    [] p = "tcp_congestion_control" -> {"cc_events"}
    [] p = "tcp_state" -> {"tcp_state_events"}
    [] p = "tcp_cubic" -> {"cubic_events"}
    [] p = "rss_stat" -> {"rss_stat_output"}

ChannelNames == UNION {ChannelsOf(p) : p \in Programs \cup {"tcp_state", "tcp_cubic", "rss_stat"}}

\* The correlation stores, by the name the history variable begun knows them by.
StoreNames == {"connect_tracking", "stores", "loads", "invalidates", "fault_entry",
               "madvise_hash", "mm_madvise_hash", "munmap_hash"}

NoRec == [none |-> TRUE]

\* A context that runs no handler.
Idle == [pc |-> "idle"]

\* The sk_state values get_sk_state reads: TCP_ESTABLISHED and TCP_LISTEN.
SkStates == {1, 10}

\* History: an entry probe of store s fired for thread p and captured rec.
Begin(s, p, rec) ==
  /\ begun' = [begun EXCEPT ![s][p] = [n |-> IF @.n < 2 THEN @.n + 1 ELSE @.n,
                                       rec |-> rec]]
  /\ last' = [kind |-> "entry", s |-> s, p |-> p, n |-> begun[s][p].n]

\* History: a return probe of store s fired for thread p.
End(s, p) ==
  /\ begun' = [begun EXCEPT ![s][p] = [n |-> 0, rec |-> NoRec]]
  /\ last' = [kind |-> "return", s |-> s, p |-> p, n |-> begun[s][p].n]

\* History: a branch probe of store s fired for thread p.
Branch(s, p) ==
  /\ last' = [kind |-> "inflight", s |-> s, p |-> p, n |-> begun[s][p].n]
  /\ UNCHANGED begun

\* Return codes a probed kernel function leaves in PT_REGS_RC.
RetCodes == {0, ERR_EINVAL}

(* ------------------------------ BPF maps ------------------------------ *)

EmptyMap == [k \in {} |-> 0]

MapPut(m, k, v) == [x \in (DOMAIN m) \cup {k} |-> IF x = k THEN v ELSE m[x]]

\* An update into a map with no capacity limit.
MapUpdate_Unbounded(m, k, v) == MapPut(m, k, v)

\* An update that leaves the value of a key the map holds.
MapUpdate_KeepsOld(m, k, v) ==
  IF k \in DOMAIN m THEN m
  ELSE IF Cardinality(DOMAIN m) < MaxEntries THEN MapPut(m, k, v) ELSE m

\* map.update(&k, &v): bpf_map_update_elem(BPF_ANY). Overwrites the value of a key
\* the map holds; a new key is rejected (-E2BIG) when the map holds max_entries.
MapUpdate(m, k, v) ==
  IF k \in DOMAIN m \/ Cardinality(DOMAIN m) < MaxEntries THEN MapPut(m, k, v) ELSE m

\* An insert that, into a full map, makes room by dropping the newest record.
MapInsert_MakesRoom(m, k, v) ==
  IF k \in DOMAIN m THEN m
  ELSE IF Cardinality(DOMAIN m) < MaxEntries THEN MapPut(m, k, v)
  ELSE LET victim == CHOOSE x \in DOMAIN m : \A y \in DOMAIN m : m[x].ts_ns >= m[y].ts_ns
       IN [x \in ((DOMAIN m) \ {victim}) \cup {k} |-> IF x = k THEN v ELSE m[x]]

\* map.insert(&k, &v): bpf_map_update_elem(BPF_NOEXIST). Fails (-EEXIST) and
\* leaves the old value when the map holds the key.
MapInsert(m, k, v) ==
  IF k \in DOMAIN m THEN m
  ELSE IF Cardinality(DOMAIN m) < MaxEntries THEN MapPut(m, k, v) ELSE m

\* A delete that takes every record of the hash bucket with it.
MapDelete_Clears(m, k) == [x \in {} |-> m[x]]

\* map.delete(&k): no effect when the key is absent.
MapDelete(m, k) == [x \in (DOMAIN m) \ {k} |-> m[x]]

\* (*count)++ on the slot of a BPF_ARRAY found by lookup(&key): lookup returns
\* NULL, and nothing is counted, when the 32-bit key is not below the array size.
ArrayIncr(arr, key) ==
  IF key \in DOMAIN arr THEN [arr EXCEPT ![key] = @ + 1] ELSE arr

(* --------------------------- perf channels ---------------------------- *)

EmptyChannel == [buf |-> <<>>, lost |-> 0]

\* A submission that, on a full ring, overwrites the oldest record.
PerfSubmit_Overwrites(ch, rec) ==
  IF Len(ch.buf) < ChannelCap
  THEN [ch EXCEPT !.buf = Append(@, rec)]
  ELSE [ch EXCEPT !.buf = Append(Tail(@), rec), !.lost = @ + 1]

\* A channel that hands the newest record to the consumer first.
PerfSubmit_Prepends(ch, rec) ==
  IF Len(ch.buf) < ChannelCap
  THEN [ch EXCEPT !.buf = <<rec>> \o @]
  ELSE [ch EXCEPT !.lost = @ + 1]

\* perf_submit(ctx, &rec, size): non-blocking; the record is appended when the
\* ring has room and is dropped, and counted as lost, when it has none.
PerfSubmit(ch, rec) ==
  IF Len(ch.buf) < ChannelCap
  THEN [ch EXCEPT !.buf = Append(@, rec)]
  ELSE [ch EXCEPT !.lost = @ + 1]

\* A handler execution that submits rec on channel name.
Emit(name, rec) ==
  /\ perf' = [perf EXCEPT ![name] = PerfSubmit(@, rec)]
  /\ since_poll' = [since_poll EXCEPT ![name].sent = Append(@, rec)]
  /\ emitted' = <<rec>>

\* A handler execution that submits nothing.
NoEmit ==
  /\ emitted' = <<>>
  /\ UNCHANGED <<perf, since_poll>>

\* The consumer drains a channel: every buffered record is delivered.
perf_buffer_poll(name) ==
  /\ name \in ChannelsOf(prog)
  /\ perf[name].buf # <<>>
  /\ perf' = [perf EXCEPT ![name].buf = <<>>]
  /\ since_poll' = [since_poll EXCEPT ![name] = [sent |-> <<>>, polled |-> TRUE]]
  /\ UNCHANGED <<prog, build, now, allMaps, cpu, incrs, tally, emitted, begun, last>>

(* ------------------------------- clock -------------------------------- *)

\* bpf_ktime_get_ns() returns now; the next read is strictly later.
CanReadClock == now < MaxClockReads * TickNs
ClockRead == now' = now + TickNs

(* --------------------------- tcp_v4_connect --------------------------- *)

\* The u32 key that lookup(&event.branch_type) reads: the four bytes at
\* branch_type, i.e. branch_type, path_type and two bytes of (zeroed) padding,
\* little-endian.
BranchKey(ev) == ev.branch_type + 256 * ev.path_type

\* The u32 key that lookup_or_init(&event->path_type, ..) reads: path_type, two
\* bytes of padding and the low byte of error_code. -1 stands for every key
\* with a non-zero top byte (all are beyond the array).
PathKey(ev) == IF ev.error_code % 256 = 0 THEN ev.path_type ELSE -1

\* The branch outcomes that end an invocation: success, and the branches whose
\* handler classifies the path as PATH_ERROR.
FailingBranches ==
  {CONNECT_INVALID_ADDRLEN, CONNECT_WRONG_FAMILY, CONNECT_ROUTE_ERROR,
   CONNECT_MULTICAST_BCAST, CONNECT_SRC_BIND_FAIL, CONNECT_HASH_ERROR,
   CONNECT_TCP_CONNECT_ERR, CONNECT_ENETUNREACH, CONNECT_ERROR_PATH}
TerminalBranches == FailingBranches \cup {CONNECT_SUCCESS}

\* History: thread p submitted ev; kind is "entry", "inflight" or "return".
\* lat and found are followed while only entry and return probes have reported.
Tally(p, ev, kind) ==
  LET t == IF ev.branch_type \in TerminalBranches /\ tally.term[p] < 2
           THEN tally.term[p] + 1 ELSE tally.term[p]
      term == [tally.term EXCEPT ![p] = IF kind = "entry" THEN 0 ELSE t]
  IN tally' =
       IF tally.inflight \/ kind = "inflight"
       THEN [lat |-> 0, found |-> 0, inflight |-> TRUE, term |-> term]
       ELSE [lat |-> tally.lat + (IF ev.latency_ns # 0 THEN 1 ELSE 0),
             found |-> tally.found + (IF kind = "return" THEN 1 ELSE 0),
             inflight |-> FALSE, term |-> term]

\* An entry probe that keeps the start time of an invocation already tracked
\* while it replaces the tracked record.
trace_tcp_v4_connect_KeepsStart(p) ==
  LET tid == pid_tgid(p).lo
      ts == now
      event == [pid |-> tid, tgid |-> tid_shr_32(p), ts_uptime_us |-> ts \div 1000,
                latency_ns |-> 0, branch_type |-> CONNECT_ENTRY,
                path_type |-> 0, error_code |-> ERR_NONE]
  IN /\ prog = "tcp_v4_connect"
     /\ CanReadClock
     /\ ClockRead
     /\ connect_start_times' = MapUpdate_KeepsOld(connect_start_times, tid, ts)
     /\ connect_tracking' = MapUpdate(connect_tracking, tid, event)
     /\ Emit("connect_events", event)
     /\ branch_stats' = ArrayIncr(branch_stats, BranchKey(event))
     /\ Begin("connect_tracking", p, [ts |-> ts])
     /\ Tally(p, event, "entry")
     /\ UNCHANGED <<prog, build, path_stats, error_stats, xConnect>>

\* trace_tcp_v4_connect: kprobe at the entry of tcp_v4_connect.
trace_tcp_v4_connect(p) ==
  LET tid == pid_tgid(p).lo
      ts == now
      event == [pid |-> tid, tgid |-> tid_shr_32(p), ts_uptime_us |-> ts \div 1000,
                latency_ns |-> 0, branch_type |-> CONNECT_ENTRY,
                path_type |-> 0, error_code |-> ERR_NONE]
  IN /\ prog = "tcp_v4_connect"
     /\ CanReadClock
     /\ ClockRead
     /\ connect_start_times' = MapUpdate(connect_start_times, tid, ts)
     /\ connect_tracking' = MapUpdate(connect_tracking, tid, event)
     /\ Emit("connect_events", event)
     /\ branch_stats' = ArrayIncr(branch_stats, BranchKey(event))
     /\ Begin("connect_tracking", p, [ts |-> ts])
     /\ Tally(p, event, "entry")
     /\ UNCHANGED <<prog, build, path_stats, error_stats, xConnect>>

\* The tracked record with ts_uptime_us refreshed and latency_ns left as stored.
Observed_StaleLatency(tid) ==
  [connect_tracking[tid] EXCEPT !.ts_uptime_us = now \div 1000]

\* The part every branch probe shares: with the tracked record of the thread,
\* refresh latency_ns (when a start time is stored) and ts_uptime_us.
Observed(tid) ==
  [connect_tracking[tid] EXCEPT
     !.latency_ns = IF tid \in DOMAIN connect_start_times
                    THEN now - connect_start_times[tid] ELSE @,
     !.ts_uptime_us = now \div 1000]

\* A branch probe that counts the hit although it found no tracked record.
Skip_Counts(p) ==
  /\ NoEmit
  /\ Branch("connect_tracking", p)
  /\ branch_stats' = ArrayIncr(branch_stats, CONNECT_ENTRY)
  /\ UNCHANGED <<prog, build, now, connectMaps, path_stats, error_stats, xConnect, tally>>

\* A branch probe that found no tracked record: nothing happens.
Skip(p) ==
  /\ NoEmit
  /\ Branch("connect_tracking", p)
  /\ UNCHANGED <<prog, build, now, connectVars, xConnect, tally>>

\* A branch probe that gives up when its submission finds the channel full:
\* the record is dropped and neither the store nor a counter is written.
Report_GivesUpWhenFull(tid, ev, errKeys, bumpPath) ==
  /\ CanReadClock
  /\ ClockRead
  /\ Emit("connect_events", ev)
  /\ IF Len(perf["connect_events"].buf) = ChannelCap
     THEN UNCHANGED <<connect_tracking, branch_stats, error_stats, path_stats>>
     ELSE /\ connect_tracking' = [connect_tracking EXCEPT ![tid] = ev]
          /\ branch_stats' = ArrayIncr(branch_stats, BranchKey(ev))
          /\ error_stats' = [k \in DOMAIN error_stats |->
                               IF k \in errKeys THEN error_stats[k] + 1
                               ELSE error_stats[k]]
          /\ path_stats' = IF bumpPath THEN ArrayIncr(path_stats, PathKey(ev))
                           ELSE path_stats
  /\ Tally(tid, ev, "inflight")
  /\ Branch("connect_tracking", tid)
  /\ UNCHANGED <<prog, build, connect_start_times, xConnect>>

\* A branch probe that treats a failing outcome as the end of the call and
\* removes the record and its start time.
Report_Removes(tid, ev, errKeys, bumpPath) ==
  /\ CanReadClock
  /\ ClockRead
  /\ connect_tracking' = IF ev.path_type = PATH_ERROR
                         THEN MapDelete(connect_tracking, tid)
                         ELSE [connect_tracking EXCEPT ![tid] = ev]
  /\ connect_start_times' = IF ev.path_type = PATH_ERROR
                            THEN MapDelete(connect_start_times, tid)
                            ELSE connect_start_times
  /\ Emit("connect_events", ev)
  /\ branch_stats' = ArrayIncr(branch_stats, BranchKey(ev))
  /\ error_stats' = [k \in DOMAIN error_stats |->
                       IF k \in errKeys THEN error_stats[k] + 1 ELSE error_stats[k]]
  /\ path_stats' = IF bumpPath THEN ArrayIncr(path_stats, PathKey(ev)) ELSE path_stats
  /\ Tally(tid, ev, "inflight")
  /\ Branch("connect_tracking", tid)
  /\ UNCHANGED <<prog, build, xConnect>>

\* A branch probe that found the record: the record, modified in place in the
\* map, is submitted; branch_stats is bumped at the key read from the record,
\* then error_stats at errKeys and path_stats at the key read from the record
\* (when bumpPath).
Report(tid, ev, errKeys, bumpPath) ==
  /\ CanReadClock
  /\ ClockRead
  /\ connect_tracking' = [connect_tracking EXCEPT ![tid] = ev]
  /\ Emit("connect_events", ev)
  /\ branch_stats' = ArrayIncr(branch_stats, BranchKey(ev))
  /\ error_stats' = [k \in DOMAIN error_stats |->
                       IF k \in errKeys THEN error_stats[k] + 1 ELSE error_stats[k]]
  /\ path_stats' = IF bumpPath THEN ArrayIncr(path_stats, PathKey(ev)) ELSE path_stats
  /\ Tally(tid, ev, "inflight")
  /\ Branch("connect_tracking", tid)
  /\ UNCHANGED <<prog, build, connect_start_times, xConnect>>

BranchProbe(p, ev, errKeys, bumpPath) ==
  /\ prog = "tcp_v4_connect"
  /\ IF pid_tgid(p).lo \in DOMAIN connect_tracking
     THEN Report(pid_tgid(p).lo, ev, errKeys, bumpPath)
     ELSE Skip(p)

trace_invalid_addrlen(p) ==
  BranchProbe(p, [Observed(p) EXCEPT !.branch_type = CONNECT_INVALID_ADDRLEN,
                                     !.error_code = ERR_EINVAL,
                                     !.path_type = PATH_ERROR], {1}, FALSE)

trace_wrong_family(p) ==
  BranchProbe(p, [Observed(p) EXCEPT !.branch_type = CONNECT_WRONG_FAMILY,
                                     !.error_code = ERR_EAFNOSUPPORT,
                                     !.path_type = PATH_ERROR], {2}, FALSE)

trace_route_lookup(p) ==
  BranchProbe(p, [Observed(p) EXCEPT !.branch_type = CONNECT_ROUTE_LOOKUP], {}, FALSE)

trace_route_error(p, rc) ==
  BranchProbe(p, [Observed(p) EXCEPT !.branch_type = CONNECT_ROUTE_ERROR,
                                     !.error_code = rc,
                                     !.path_type = PATH_ERROR], {3}, FALSE)

trace_multicast_bcast(p) ==
  BranchProbe(p, [Observed(p) EXCEPT !.branch_type = CONNECT_MULTICAST_BCAST,
                                     !.error_code = ERR_ENETUNREACH,
                                     !.path_type = PATH_ERROR], {4}, FALSE)

trace_no_src_addr(p) ==
  BranchProbe(p, [Observed(p) EXCEPT !.branch_type = CONNECT_NO_SRC_ADDR], {}, FALSE)

trace_src_bind_fail(p, rc) ==
  BranchProbe(p, [Observed(p) EXCEPT !.branch_type = CONNECT_SRC_BIND_FAIL,
                                     !.error_code = rc,
                                     !.path_type = PATH_ERROR], {5}, FALSE)

trace_port_alloc(p) ==
  BranchProbe(p, [Observed(p) EXCEPT !.branch_type = CONNECT_PORT_ALLOC], {}, FALSE)

trace_hash_error(p) ==
  BranchProbe(p, [Observed(p) EXCEPT !.branch_type = CONNECT_HASH_ERROR,
                                     !.path_type = PATH_ERROR], {}, FALSE)

trace_fastopen_defer(p) ==
  BranchProbe(p, [Observed(p) EXCEPT !.branch_type = CONNECT_FASTOPEN_DEFER,
                                     !.path_type = PATH_FASTOPEN], {}, TRUE)

trace_regular_syn(p) ==
  BranchProbe(p, [Observed(p) EXCEPT !.branch_type = CONNECT_REGULAR_SYN,
                                     !.path_type = PATH_SLOW], {}, TRUE)

trace_tcp_connect_err(p, rc) ==
  BranchProbe(p, [Observed(p) EXCEPT !.branch_type = CONNECT_TCP_CONNECT_ERR,
                                     !.error_code = rc,
                                     !.path_type = PATH_ERROR], {}, FALSE)

trace_enetunreach(p) ==
  BranchProbe(p, [Observed(p) EXCEPT !.branch_type = CONNECT_ENETUNREACH,
                                     !.error_code = ERR_ENETUNREACH,
                                     !.path_type = PATH_ERROR], {}, FALSE)

trace_new_sport(p) ==
  BranchProbe(p, [Observed(p) EXCEPT !.branch_type = CONNECT_NEW_SPORT], {}, FALSE)

trace_write_seq_init(p) ==
  BranchProbe(p, [Observed(p) EXCEPT !.branch_type = CONNECT_WRITE_SEQ_INIT], {}, FALSE)

trace_error_path(p) ==
  BranchProbe(p, [Observed(p) EXCEPT !.branch_type = CONNECT_ERROR_PATH,
                                     !.path_type = PATH_ERROR], {}, TRUE)

\* The return probe's record without the latency_ns / ts_uptime_us refresh.
Returned_Unobserved(tid, rc) ==
  LET ev == [connect_tracking[tid] EXCEPT !.error_code = rc]
  IN IF rc = 0
     THEN [ev EXCEPT !.branch_type = CONNECT_SUCCESS, !.path_type = PATH_FAST]
     ELSE IF ev.path_type = 0 THEN [ev EXCEPT !.path_type = PATH_ERROR] ELSE ev

\* The record the return probe submits: result code stored, then classified.
Returned(tid, rc) ==
  LET ev == [Observed(tid) EXCEPT !.error_code = rc]
  IN IF rc = 0
     THEN [ev EXCEPT !.branch_type = CONNECT_SUCCESS, !.path_type = PATH_FAST]
     ELSE IF ev.path_type = 0 THEN [ev EXCEPT !.path_type = PATH_ERROR] ELSE ev

\* trace_tcp_v4_connect_return: kretprobe of tcp_v4_connect.
trace_tcp_v4_connect_return(p, rc) ==
  LET tid == pid_tgid(p).lo
  IN /\ prog = "tcp_v4_connect"
     /\ IF tid \in DOMAIN connect_tracking
        THEN /\ CanReadClock
             /\ ClockRead
             /\ connect_start_times' = MapDelete(connect_start_times, tid)
             /\ path_stats' = IF rc = 0 THEN ArrayIncr(path_stats, PATH_FAST)
                              ELSE path_stats
             /\ Emit("connect_events", Returned(tid, rc))
             /\ branch_stats' = ArrayIncr(branch_stats, BranchKey(Returned(tid, rc)))
             /\ connect_tracking' = MapDelete(connect_tracking, tid)
             /\ Tally(tid, Returned(tid, rc), "return")
             /\ UNCHANGED error_stats
        ELSE /\ NoEmit
             /\ UNCHANGED <<now, connectVars, tally>>
     /\ End("connect_tracking", p)
     /\ UNCHANGED <<prog, build, xConnect>>

(* ---------------------------- zswap_runtime --------------------------- *)

\* IS_ERR(ptr): the value lies in the last 4095 addresses, i.e. is one of the
\* negative error codes -4095 .. -1.
IS_ERR(rc) == rc < 0 /\ rc >= -4095

zswap_event(id, start_ts) ==
  [pid |-> id.lo, tgid |-> id.hi, start_ts |-> start_ts, end_ts |-> now]

trace_zswap_store_entry(p) ==
  LET id == pid_tgid(p)
  IN /\ prog = "zswap_runtime"
     /\ CanReadClock
     /\ ClockRead
     /\ stores' = MapUpdate(stores, id, now)
     /\ NoEmit
     /\ Begin("stores", p, [ts |-> now])
     /\ UNCHANGED <<prog, build, loads, invalidates, xZswap>>

\* A store return probe that falls back on the start time of a load of the
\* thread when no store is recorded.
trace_zswap_store_return_AnyOperation(p, rc) ==
  LET id == pid_tgid(p)
  IN /\ prog = "zswap_runtime"
     /\ IF (id \notin DOMAIN stores /\ id \notin DOMAIN loads) \/ IS_ERR(rc)
        THEN /\ NoEmit
             /\ UNCHANGED <<now, stores>>
        ELSE /\ CanReadClock
             /\ ClockRead
             /\ Emit("zswap_store_events",
                     zswap_event(id, IF id \in DOMAIN stores THEN stores[id] ELSE loads[id]))
             /\ stores' = MapDelete(stores, id)
     /\ End("stores", p)
     /\ UNCHANGED <<prog, build, loads, invalidates, xZswap>>

trace_zswap_store_return(p, rc) ==
  LET id == pid_tgid(p)
  IN /\ prog = "zswap_runtime"
     /\ IF id \notin DOMAIN stores \/ IS_ERR(rc)
        THEN /\ NoEmit
             /\ UNCHANGED <<now, stores>>
        ELSE /\ CanReadClock
             /\ ClockRead
             /\ Emit("zswap_store_events", zswap_event(id, stores[id]))
             /\ stores' = MapDelete(stores, id)
     /\ End("stores", p)
     /\ UNCHANGED <<prog, build, loads, invalidates, xZswap>>

trace_zswap_load_entry(p) ==
  LET id == pid_tgid(p)
  IN /\ prog = "zswap_runtime"
     /\ CanReadClock
     /\ ClockRead
     /\ loads' = MapUpdate(loads, id, now)
     /\ NoEmit
     /\ Begin("loads", p, [ts |-> now])
     /\ UNCHANGED <<prog, build, stores, invalidates, xZswap>>

trace_zswap_load_return(p, rc) ==
  LET id == pid_tgid(p)
  IN /\ prog = "zswap_runtime"
     /\ IF id \notin DOMAIN loads \/ IS_ERR(rc)
        THEN /\ NoEmit
             /\ UNCHANGED <<now, loads>>
        ELSE /\ CanReadClock
             /\ ClockRead
             /\ Emit("zswap_load_events", zswap_event(id, loads[id]))
             /\ loads' = MapDelete(loads, id)
     /\ End("loads", p)
     /\ UNCHANGED <<prog, build, stores, invalidates, xZswap>>

trace_zswap_invalidate_entry(p) ==
  LET id == pid_tgid(p)
  IN /\ prog = "zswap_runtime"
     /\ CanReadClock
     /\ ClockRead
     /\ invalidates' = MapUpdate(invalidates, id, now)
     /\ NoEmit
     /\ Begin("invalidates", p, [ts |-> now])
     /\ UNCHANGED <<prog, build, stores, loads, xZswap>>

trace_zswap_invalidate_return(p, rc) ==
  LET id == pid_tgid(p)
  IN /\ prog = "zswap_runtime"
     /\ IF id \notin DOMAIN invalidates \/ IS_ERR(rc)
        THEN /\ NoEmit
             /\ UNCHANGED <<now, invalidates>>
        ELSE /\ CanReadClock
             /\ ClockRead
             /\ Emit("zswap_invalidate_events", zswap_event(id, invalidates[id]))
             /\ invalidates' = MapDelete(invalidates, id)
     /\ End("invalidates", p)
     /\ UNCHANGED <<prog, build, stores, loads, xZswap>>

(* ------------------------ page_fault (handle_mm_fault) ---------------- *)

VM_FAULT_MAJOR == 512
VM_FAULT_ERROR == 1

\* x & b for a single bit b.
HasBit(x, b) == (x \div b) % 2 = 1

\* The (address, flags) of the handle_mm_fault calls (FAULT_FLAG_WRITE is bit
\* 0x1, FAULT_FLAG_INSTRUCTION bit 0x100) and the vm_fault_t results the
\* probes see.
FaultCalls == {[address |-> 4096, flags |-> 1], [address |-> 8192, flags |-> 256]}
FaultRets == {0, VM_FAULT_ERROR, VM_FAULT_MAJOR, VM_FAULT_MAJOR + VM_FAULT_ERROR}

trace_handle_mm_fault_entry(p, c) ==
  LET pid == pid_tgid(p).lo
      info == [pid |-> pid, address |-> c.address, flags |-> c.flags,
               ts_start |-> now]
  IN /\ prog = "page_fault"
     /\ CanReadClock
     /\ ClockRead
     /\ fault_entry' = MapUpdate(fault_entry, pid, info)
     /\ NoEmit
     /\ Begin("fault_entry", p, info)
     /\ UNCHANGED <<prog, build, xFault>>

\* An event stamped with the time of the return instead of the entry's start.
page_fault_event_ObservedTime(p, info, ret) ==
  [pid |-> info.pid, tgid |-> pid_tgid(p).hi,
   ts_uptime_us |-> now \div 1000, address |-> info.address,
   error_code |-> 0,
   is_major |-> IF HasBit(ret, VM_FAULT_MAJOR) THEN 1 ELSE 0,
   is_write |-> IF HasBit(info.flags, 1) THEN 1 ELSE 0,
   is_exec |-> IF HasBit(info.flags, 256) THEN 1 ELSE 0]

page_fault_event(p, info, ret) ==
  [pid |-> info.pid, tgid |-> pid_tgid(p).hi,
   ts_uptime_us |-> info.ts_start \div 1000, address |-> info.address,
   error_code |-> 0,
   is_major |-> IF HasBit(ret, VM_FAULT_MAJOR) THEN 1 ELSE 0,
   is_write |-> IF HasBit(info.flags, 1) THEN 1 ELSE 0,
   is_exec |-> IF HasBit(info.flags, 256) THEN 1 ELSE 0]

trace_handle_mm_fault_return(p, ret) ==
  LET pid == pid_tgid(p).lo
  IN /\ prog = "page_fault"
     /\ IF pid \notin DOMAIN fault_entry
        THEN /\ NoEmit
             /\ UNCHANGED fault_entry
        ELSE IF HasBit(ret, VM_FAULT_ERROR)
        THEN /\ NoEmit
             /\ fault_entry' = MapDelete(fault_entry, pid)
        ELSE /\ Emit("page_fault_events", page_fault_event(p, fault_entry[pid], ret))
             /\ fault_entry' = MapDelete(fault_entry, pid)
     /\ End("fault_entry", p)
     /\ UNCHANGED <<prog, build, now, xFault>>

(* ------------------------------- madvise ------------------------------ *)

\* The (addr, length, advice) of the do_madvise calls and the (start, end) of
\* the do_vmi_align_munmap calls the probes see.
MadviseCalls == {[addr |-> 4096, length |-> 4096, advice |-> 4],
                 [addr |-> 8192, length |-> 12288, advice |-> 14]}
MunmapCalls == {[start |-> 4096, end |-> 8192], [start |-> 8192, end |-> 20480]}

madvise_data(p, addr, length, advice) ==
  [tgid |-> Tgid(p), ts_ns |-> now, address |-> addr, length |-> length,
   advice |-> advice]

\* madvise.bpf.c
kprobe__do_madvise(p, c) ==
  LET pid == pid_tgid(p).lo
      data == madvise_data(p, c.addr, c.length, c.advice)
  IN /\ prog = "madvise"
     /\ CanReadClock
     /\ ClockRead
     /\ madvise_hash' = MapInsert(madvise_hash, pid, data)
     /\ NoEmit
     /\ Begin("madvise_hash", p, data)
     /\ UNCHANGED <<prog, build, mm_madvise_hash, munmap_hash, xMadvise>>

kretprobe__do_madvise(p, rc) ==
  LET pid == pid_tgid(p).lo
  IN /\ prog = "madvise"
     /\ IF rc # 0 \/ pid \notin DOMAIN madvise_hash
        THEN /\ NoEmit
             /\ UNCHANGED madvise_hash
        ELSE /\ Emit("madvise_output", madvise_hash[pid])
             /\ madvise_hash' = MapDelete(madvise_hash, pid)
     /\ End("madvise_hash", p)
     /\ UNCHANGED <<prog, build, now, mm_madvise_hash, munmap_hash, xMadvise>>

(* --------------------- madvise/munmap tracer (second version) --------- *)

mm_kprobe__do_madvise(p, c) ==
  LET pid == pid_tgid(p).lo
      data == madvise_data(p, c.addr, c.length, c.advice)
  IN /\ prog = "madvise_munmap"
     /\ CanReadClock
     /\ ClockRead
     /\ mm_madvise_hash' = MapInsert(mm_madvise_hash, pid, data)
     /\ NoEmit
     /\ Begin("mm_madvise_hash", p, data)
     /\ UNCHANGED <<prog, build, madvise_hash, munmap_hash, xMadvise>>

\* "if (rc != 0) delete; return 0;": the return follows the if statement, it is
\* not governed by it, so the lookup and the perf_submit below it never run.
mm_kretprobe__do_madvise(p, rc) ==
  LET pid == pid_tgid(p).lo
  IN /\ prog = "madvise_munmap"
     /\ mm_madvise_hash' = IF rc # 0 THEN MapDelete(mm_madvise_hash, pid)
                           ELSE mm_madvise_hash
     /\ NoEmit
     /\ End("mm_madvise_hash", p)
     /\ UNCHANGED <<prog, build, now, madvise_hash, munmap_hash, xMadvise>>

kprobe__do_vmi_align_munmap(p, c) ==
  LET pid == pid_tgid(p).lo
      data == madvise_data(p, c.start, c.end - c.start, -1)
  IN /\ prog = "madvise_munmap"
     /\ CanReadClock
     /\ ClockRead
     /\ munmap_hash' = MapInsert(munmap_hash, pid, data)
     /\ NoEmit
     /\ Begin("munmap_hash", p, data)
     /\ UNCHANGED <<prog, build, madvise_hash, mm_madvise_hash, xMadvise>>

\* Here too "return 0;" follows "if (rc != 0) delete;" unconditionally.
kretprobe__do_vmi_align_munmap(p, rc) ==
  LET pid == pid_tgid(p).lo
  IN /\ prog = "madvise_munmap"
     /\ munmap_hash' = IF pid \in DOMAIN munmap_hash /\ rc # 0
                       THEN MapDelete(munmap_hash, pid) ELSE munmap_hash
     /\ NoEmit
     /\ End("munmap_hash", p)
     /\ UNCHANGED <<prog, build, now, madvise_hash, mm_madvise_hash, xMadvise>>

(* ------------------------------ tcp_v4_rcv ---------------------------- *)

\* The body every probe of the receive tracer has: a zeroed event stamped with
\* the thread, the time and the branch, and a drop reason where the handler
\* assigns one (0, the zero of "event = {}", where it does not).
tcp_branch_event(p, branch, reason) ==
  [pid |-> pid_tgid(p).lo, tgid |-> pid_tgid(p).hi, ts_uptime_us |-> now \div 1000,
   branch_type |-> branch, drop_reason |-> reason]

RcvProbe(program, channel, p, branch, reason) ==
  /\ prog = program
  /\ CanReadClock
  /\ ClockRead
  /\ Emit(channel, tcp_branch_event(p, branch, reason))
  /\ UNCHANGED <<prog, build, allMaps, cpu, incrs, tally, begun, last>>

\* tcp_v4_rcv.bpf.c
trace_tcp_v4_rcv(p) ==
  RcvProbe("tcp_v4_rcv", "tcp_branch_events", p, TCP_BRANCH_ENTRY, 0)
trace_not_for_host(p) ==
  RcvProbe("tcp_v4_rcv", "tcp_branch_events", p, TCP_BRANCH_NOT_FOR_HOST,
           SKB_DROP_REASON_NOT_SPECIFIED)
trace_no_socket(p) ==
  RcvProbe("tcp_v4_rcv", "tcp_branch_events", p, TCP_BRANCH_NO_SOCKET,
           SKB_DROP_REASON_NO_SOCKET)
trace_time_wait(p) ==
  RcvProbe("tcp_v4_rcv", "tcp_branch_events", p, TCP_BRANCH_TIME_WAIT, 0)
trace_checksum_error(p) ==
  RcvProbe("tcp_v4_rcv", "tcp_branch_events", p, TCP_BRANCH_CHECKSUM_ERR,
           SKB_DROP_REASON_TCP_CSUM)
trace_listen_state(p) ==
  RcvProbe("tcp_v4_rcv", "tcp_branch_events", p, TCP_BRANCH_LISTEN, 0)
trace_socket_busy(p) ==
  RcvProbe("tcp_v4_rcv", "tcp_branch_events", p, TCP_BRANCH_SOCKET_BUSY, 0)
trace_xfrm_policy_drop(p) ==
  RcvProbe("tcp_v4_rcv", "tcp_branch_events", p, TCP_BRANCH_XFRM_DROP,
           SKB_DROP_REASON_XFRM_POLICY)
trace_new_syn_recv(p) ==
  RcvProbe("tcp_v4_rcv", "tcp_branch_events", p, TCP_BRANCH_NEW_SYN_RECV, 0)

\* The extended receive tracer (19 branches).
ext_trace_tcp_v4_rcv(p) ==
  RcvProbe("tcp_v4_rcv_ext", "ext_tcp_branch_events", p, TCP_BRANCH_ENTRY, 0)
ext_trace_not_for_host(p) ==
  RcvProbe("tcp_v4_rcv_ext", "ext_tcp_branch_events", p, TCP_BRANCH_NOT_FOR_HOST,
           SKB_DROP_REASON_NOT_SPECIFIED)
ext_trace_no_socket(p) ==
  RcvProbe("tcp_v4_rcv_ext", "ext_tcp_branch_events", p, TCP_BRANCH_NO_SOCKET,
           SKB_DROP_REASON_NO_SOCKET)
ext_trace_time_wait(p) ==
  RcvProbe("tcp_v4_rcv_ext", "ext_tcp_branch_events", p, TCP_BRANCH_TIME_WAIT, 0)
ext_trace_checksum_error(p) ==
  RcvProbe("tcp_v4_rcv_ext", "ext_tcp_branch_events", p, TCP_BRANCH_CHECKSUM_ERR,
           SKB_DROP_REASON_TCP_CSUM)
ext_trace_listen_state(p) ==
  RcvProbe("tcp_v4_rcv_ext", "ext_tcp_branch_events", p, TCP_BRANCH_LISTEN, 0)
ext_trace_socket_busy(p) ==
  RcvProbe("tcp_v4_rcv_ext", "ext_tcp_branch_events", p, TCP_BRANCH_SOCKET_BUSY, 0)
ext_trace_xfrm_policy_drop(p) ==
  RcvProbe("tcp_v4_rcv_ext", "ext_tcp_branch_events", p, TCP_BRANCH_XFRM_DROP,
           SKB_DROP_REASON_XFRM_POLICY)
ext_trace_new_syn_recv(p) ==
  RcvProbe("tcp_v4_rcv_ext", "ext_tcp_branch_events", p, TCP_BRANCH_NEW_SYN_RECV, 0)
ext_trace_pkt_too_small(p) ==
  RcvProbe("tcp_v4_rcv_ext", "ext_tcp_branch_events", p, TCP_BRANCH_PKT_TOO_SMALL,
           SKB_DROP_REASON_PKT_TOO_SMALL)
ext_trace_min_ttl_drop(p) ==
  RcvProbe("tcp_v4_rcv_ext", "ext_tcp_branch_events", p, TCP_BRANCH_MIN_TTL_DROP,
           SKB_DROP_REASON_TCP_MINTTL)
ext_trace_socket_filter_drop(p) ==
  RcvProbe("tcp_v4_rcv_ext", "ext_tcp_branch_events", p, TCP_BRANCH_SOCKET_FILTER,
           SKB_DROP_REASON_SOCKET_FILTER)
ext_trace_do_rcv_call(p) ==
  RcvProbe("tcp_v4_rcv_ext", "ext_tcp_branch_events", p, TCP_BRANCH_DO_RCV_CALL, 0)
ext_trace_md5_fail(p) ==
  RcvProbe("tcp_v4_rcv_ext", "ext_tcp_branch_events", p, TCP_BRANCH_MD5_FAIL,
           SKB_DROP_REASON_NOT_SPECIFIED)
ext_trace_backlog_add(p) ==
  RcvProbe("tcp_v4_rcv_ext", "ext_tcp_branch_events", p, TCP_BRANCH_BACKLOG_ADD, 0)
ext_trace_req_stolen(p) ==
  RcvProbe("tcp_v4_rcv_ext", "ext_tcp_branch_events", p, TCP_BRANCH_REQ_STOLEN, 0)
ext_trace_listen_drop(p) ==
  RcvProbe("tcp_v4_rcv_ext", "ext_tcp_branch_events", p, TCP_BRANCH_LISTEN_DROP, 0)
ext_trace_rst_sent(p) ==
  RcvProbe("tcp_v4_rcv_ext", "ext_tcp_branch_events", p, TCP_BRANCH_RST_SENT, 0)
ext_trace_established(p) ==
  RcvProbe("tcp_v4_rcv_ext", "ext_tcp_branch_events", p, TCP_BRANCH_ESTABLISHED, 0)

(* ------------------------ tcp_congestion_control ---------------------- *)

\* The sockets the probed functions are called on (struct sock *sk).
Socks == {"sk1", "sk2"}

\* A congestion-control event labelled with an outcome of the connect tracer.
cc_event_ConnectOutcome(p, sk, type) ==
  [pid |-> pid_tgid(p).lo, tgid |-> pid_tgid(p).hi, ts_uptime_us |-> now \div 1000,
   event_type |-> CONNECT_SUCCESS, conn |-> sk]

\* struct cc_event event = {}; the connection fields are read from sk.
cc_event(p, sk, type) ==
  [pid |-> pid_tgid(p).lo, tgid |-> pid_tgid(p).hi, ts_uptime_us |-> now \div 1000,
   event_type |-> type, conn |-> sk]

\* A reporting probe that also records the socket.
CcProbe_Tracks(p, sk, type) ==
  /\ prog = "tcp_congestion_control"
  /\ CanReadClock
  /\ ClockRead
  /\ socket_tracking' = MapUpdate(socket_tracking, sk, cc_event(p, sk, type))
  /\ Emit("cc_events", cc_event(p, sk, type))
  /\ UNCHANGED <<prog, build, connectVars, zswapVars, fault_entry, cubicVars, madviseVars, rssVars,
                 tcpStateVars, cpu, incrs, tally, begun, last>>

\* The probes that only report.
CcProbe(p, sk, type) ==
  /\ prog = "tcp_congestion_control"
  /\ CanReadClock
  /\ ClockRead
  /\ Emit("cc_events", cc_event(p, sk, type))
  /\ UNCHANGED <<prog, build, allMaps, cpu, incrs, tally, begun, last>>

trace_assign_cc(p, sk) ==
  /\ prog = "tcp_congestion_control"
  /\ CanReadClock
  /\ ClockRead
  /\ socket_tracking' = MapUpdate(socket_tracking, sk, cc_event(p, sk, EVENT_ASSIGN_CC))
  /\ Emit("cc_events", cc_event(p, sk, EVENT_ASSIGN_CC))
  /\ UNCHANGED <<prog, build, connectVars, zswapVars, fault_entry, cubicVars, madviseVars, rssVars,
                 tcpStateVars, cpu, incrs, tally, begun, last>>

trace_init_cc(p, sk) == CcProbe(p, sk, EVENT_INIT_CC)
trace_set_cc(p, sk) == CcProbe(p, sk, EVENT_SET_CC)
trace_reinit_cc(p, sk) == CcProbe(p, sk, EVENT_REINIT_CC)

trace_cleanup_cc(p, sk) ==
  /\ prog = "tcp_congestion_control"
  /\ CanReadClock
  /\ ClockRead
  /\ socket_tracking' = MapDelete(socket_tracking, sk)
  /\ Emit("cc_events", cc_event(p, sk, EVENT_CLEANUP_CC))
  /\ UNCHANGED <<prog, build, connectVars, zswapVars, fault_entry, cubicVars, madviseVars, rssVars,
                 tcpStateVars, cpu, incrs, tally, begun, last>>

(* ------------------------- TCP state tracer --------------------------- *)

\* struct tcp_state_stats: total_calls and one field per branch probe.
BranchFields ==
  {"listen_state", "syn_sent_state", "syn_recv_to_established",
   "fin_wait1_to_fin_wait2", "to_time_wait", "to_last_ack", "challenge_acks",
   "resets", "fast_open_checks", "ack_processing", "data_queued", "abort_on_data"}
zero_stats == [f \in BranchFields \cup {"total_calls"} |-> 0]

\* trace_tcp_rcv_state_process: the main entry probe. lookup_or_try_init
\* creates the record of key 0 zeroed; total_calls and the slot of the socket
\* state are bumped (the slot is created with 1 when the lookup misses).
trace_tcp_rcv_state_process(p, state) ==
  LET stats == IF 0 \in DOMAIN stats_map THEN stats_map[0] ELSE zero_stats
  IN /\ prog = "tcp_state"
     /\ incrs.total_calls < MaxCalls
     /\ stats_map' = MapPut(stats_map, 0, [stats EXCEPT !.total_calls = @ + 1])
     /\ state_distribution' =
          IF state \in DOMAIN state_distribution
          THEN [state_distribution EXCEPT ![state] = @ + 1]
          ELSE MapPut(state_distribution, state, 1)
     /\ incrs' = [incrs EXCEPT !.total_calls = @ + 1,
                               !.state_distribution[state] = @ + 1]
     /\ NoEmit
     /\ UNCHANGED <<prog, build, now, connectVars, zswapVars, fault_entry, ccVars, cubicVars, madviseVars, rssVars,
                    cpu, tally, begun, last>>

tcp_state_event(p, old, new, type, subtype) ==
  [pid |-> pid_tgid(p).lo, tgid |-> pid_tgid(p).hi, ts_uptime_us |-> now \div 1000,
   old_state |-> old, new_state |-> new, event_type |-> type,
   event_subtype |-> subtype]

\* The body every branch probe has: stats = stats_map.lookup(&key); if (stats)
\* an atomic add on its field; then the event is built and submitted.
StateProbe(p, field, ev) ==
  /\ prog = "tcp_state"
  /\ CanReadClock
  /\ ClockRead
  /\ stats_map' = IF 0 \in DOMAIN stats_map
                  THEN [stats_map EXCEPT ![0][field] = @ + 1]
                  ELSE stats_map
  /\ Emit("tcp_state_events", ev)
  /\ UNCHANGED <<prog, build, connectVars, zswapVars, fault_entry, ccVars, cubicVars, madviseVars, rssVars,
                 state_distribution, cpu, incrs, tally, begun, last>>

st_trace_listen_state(p) ==
  StateProbe(p, "listen_state",
             tcp_state_event(p, TCP_LISTEN, TCP_LISTEN, STATE_PROCESSING, SUBTYPE_NONE))
trace_syn_sent_state(p) ==
  StateProbe(p, "syn_sent_state",
             tcp_state_event(p, TCP_SYN_SENT, TCP_SYN_SENT, STATE_PROCESSING, SUBTYPE_NONE))
trace_syn_recv_to_established(p) ==
  StateProbe(p, "syn_recv_to_established",
             tcp_state_event(p, TCP_SYN_RECV, TCP_ESTABLISHED, STATE_TRANSITION, SUBTYPE_NONE))
trace_fin_wait1_to_fin_wait2(p) ==
  StateProbe(p, "fin_wait1_to_fin_wait2",
             tcp_state_event(p, TCP_FIN_WAIT1, TCP_FIN_WAIT2, STATE_TRANSITION, SUBTYPE_NONE))
trace_to_time_wait(p) ==
  StateProbe(p, "to_time_wait",
             tcp_state_event(p, 0, TCP_TIME_WAIT, STATE_TRANSITION, SUBTYPE_NONE))
trace_last_ack(p) ==
  StateProbe(p, "to_last_ack",
             tcp_state_event(p, TCP_LAST_ACK, TCP_LAST_ACK, STATE_PROCESSING, SUBTYPE_NONE))
trace_challenge_ack(p) ==
  StateProbe(p, "challenge_acks",
             tcp_state_event(p, 0, 0, STATE_ERROR, SUBTYPE_CHALLENGE_ACK))
trace_reset(p) ==
  StateProbe(p, "resets", tcp_state_event(p, 0, 0, STATE_ERROR, SUBTYPE_RESET))
trace_fast_open(p) ==
  StateProbe(p, "fast_open_checks",
             tcp_state_event(p, 0, 0, STATE_PROCESSING, SUBTYPE_FAST_OPEN))
trace_ack_processing(p) ==
  StateProbe(p, "ack_processing",
             tcp_state_event(p, 0, 0, STATE_PROCESSING, SUBTYPE_ACK_PROCESS))
trace_data_queue(p) ==
  StateProbe(p, "data_queued",
             tcp_state_event(p, 0, 0, STATE_PROCESSING, SUBTYPE_DATA_QUEUE))
trace_abort_on_data(p) ==
  StateProbe(p, "abort_on_data",
             tcp_state_event(p, 0, 0, STATE_ERROR, SUBTYPE_ABORT_DATA))

(* ------------------------------ behaviours ---------------------------- *)

InitMaps ==
  /\ build \in IF prog = "tcp_v4_connect" THEN ShiftBuilds ELSE {"zero"}
  /\ now = 0
  /\ perf = [n \in ChannelNames |-> EmptyChannel]
  /\ connect_start_times = EmptyMap
  /\ connect_tracking = EmptyMap
  /\ branch_stats = [k \in 0 .. BranchStatsSize - 1 |-> 0]
  /\ path_stats = [k \in 0 .. PathStatsSize - 1 |-> 0]
  /\ error_stats = [k \in 0 .. ErrorStatsSize - 1 |-> 0]
  /\ emitted = <<>>
  /\ since_poll = [n \in ChannelNames |-> [sent |-> <<>>, polled |-> FALSE]]
  /\ stores = EmptyMap
  /\ loads = EmptyMap
  /\ invalidates = EmptyMap
  /\ fault_entry = EmptyMap
  /\ socket_tracking = EmptyMap
  /\ cubic_socket_tracking = EmptyMap
  /\ closed = {}
  /\ madvise_hash = EmptyMap
  /\ mm_madvise_hash = EmptyMap
  /\ munmap_hash = EmptyMap
  /\ rss_stat_hash = EmptyMap
  /\ stats_map = EmptyMap
  /\ state_distribution = EmptyMap
  /\ cpu = [p \in Pids |-> Idle]
  /\ incrs = [branch_stats |-> 0, total_calls |-> 0,
              state_distribution |-> [st \in SkStates |-> 0]]
  /\ tally = [lat |-> 0, found |-> 0, inflight |-> FALSE, term |-> [p \in Pids |-> 0]]
  /\ begun = [s \in StoreNames |-> [p \in Pids |-> [n |-> 0, rec |-> NoRec]]]
  /\ last = [kind |-> "none"]

Init ==
  /\ prog \in Programs
  /\ InitMaps

Next ==
  \/ \E p \in Pids : trace_tcp_v4_connect(p)
  \/ \E p \in Pids : trace_invalid_addrlen(p)
  \/ \E p \in Pids : trace_wrong_family(p)
  \/ \E p \in Pids : trace_route_lookup(p)
  \/ \E p \in Pids, rc \in RetCodes : trace_route_error(p, rc)
  \/ \E p \in Pids : trace_multicast_bcast(p)
  \/ \E p \in Pids : trace_no_src_addr(p)
  \/ \E p \in Pids, rc \in RetCodes : trace_src_bind_fail(p, rc)
  \/ \E p \in Pids : trace_port_alloc(p)
  \/ \E p \in Pids : trace_hash_error(p)
  \/ \E p \in Pids : trace_fastopen_defer(p)
  \/ \E p \in Pids : trace_regular_syn(p)
  \/ \E p \in Pids, rc \in RetCodes : trace_tcp_connect_err(p, rc)
  \/ \E p \in Pids : trace_enetunreach(p)
  \/ \E p \in Pids : trace_new_sport(p)
  \/ \E p \in Pids : trace_write_seq_init(p)
  \/ \E p \in Pids : trace_error_path(p)
  \/ \E p \in Pids, rc \in RetCodes : trace_tcp_v4_connect_return(p, rc)
  \/ \E p \in Pids : trace_zswap_store_entry(p)
  \/ \E p \in Pids, rc \in RetCodes : trace_zswap_store_return(p, rc)
  \/ \E p \in Pids : trace_zswap_load_entry(p)
  \/ \E p \in Pids, rc \in RetCodes : trace_zswap_load_return(p, rc)
  \/ \E p \in Pids : trace_zswap_invalidate_entry(p)
  \/ \E p \in Pids, rc \in RetCodes : trace_zswap_invalidate_return(p, rc)
  \/ \E p \in Pids, c \in FaultCalls : trace_handle_mm_fault_entry(p, c)
  \/ \E p \in Pids, r \in FaultRets : trace_handle_mm_fault_return(p, r)
  \/ \E p \in Pids, c \in MadviseCalls : kprobe__do_madvise(p, c)
  \/ \E p \in Pids, rc \in RetCodes : kretprobe__do_madvise(p, rc)
  \/ \E p \in Pids, c \in MadviseCalls : mm_kprobe__do_madvise(p, c)
  \/ \E p \in Pids, rc \in RetCodes : mm_kretprobe__do_madvise(p, rc)
  \/ \E p \in Pids, c \in MunmapCalls : kprobe__do_vmi_align_munmap(p, c)
  \/ \E p \in Pids, rc \in RetCodes : kretprobe__do_vmi_align_munmap(p, rc)
  \/ \E p \in Pids : trace_tcp_v4_rcv(p)
  \/ \E p \in Pids : trace_not_for_host(p)
  \/ \E p \in Pids : trace_no_socket(p)
  \/ \E p \in Pids : trace_time_wait(p)
  \/ \E p \in Pids : trace_checksum_error(p)
  \/ \E p \in Pids : trace_listen_state(p)
  \/ \E p \in Pids : trace_socket_busy(p)
  \/ \E p \in Pids : trace_xfrm_policy_drop(p)
  \/ \E p \in Pids : trace_new_syn_recv(p)
  \/ \E p \in Pids : ext_trace_tcp_v4_rcv(p)
  \/ \E p \in Pids : ext_trace_not_for_host(p)
  \/ \E p \in Pids : ext_trace_no_socket(p)
  \/ \E p \in Pids : ext_trace_time_wait(p)
  \/ \E p \in Pids : ext_trace_checksum_error(p)
  \/ \E p \in Pids : ext_trace_listen_state(p)
  \/ \E p \in Pids : ext_trace_socket_busy(p)
  \/ \E p \in Pids : ext_trace_xfrm_policy_drop(p)
  \/ \E p \in Pids : ext_trace_new_syn_recv(p)
  \/ \E p \in Pids : ext_trace_pkt_too_small(p)
  \/ \E p \in Pids : ext_trace_min_ttl_drop(p)
  \/ \E p \in Pids : ext_trace_socket_filter_drop(p)
  \/ \E p \in Pids : ext_trace_do_rcv_call(p)
  \/ \E p \in Pids : ext_trace_md5_fail(p)
  \/ \E p \in Pids : ext_trace_backlog_add(p)
  \/ \E p \in Pids : ext_trace_req_stolen(p)
  \/ \E p \in Pids : ext_trace_listen_drop(p)
  \/ \E p \in Pids : ext_trace_rst_sent(p)
  \/ \E p \in Pids : ext_trace_established(p)
  \/ \E p \in Pids, sk \in Socks : trace_assign_cc(p, sk)
  \/ \E p \in Pids, sk \in Socks : trace_init_cc(p, sk)
  \/ \E p \in Pids, sk \in Socks : trace_set_cc(p, sk)
  \/ \E p \in Pids, sk \in Socks : trace_reinit_cc(p, sk)
  \/ \E p \in Pids, sk \in Socks : trace_cleanup_cc(p, sk)
  \/ \E n \in ChannelNames : perf_buffer_poll(n)

Spec == Init /\ [][Next]_vars

(* ---------------------------- CUBIC tracer ---------------------------- *)

\* struct cubic_event event = {}; the connection, TCP and CUBIC fields are
\* read from sk.
cubic_event(p, sk, type) ==
  [pid |-> pid_tgid(p).lo, tgid |-> pid_tgid(p).hi, ts_uptime_us |-> now \div 1000,
   event_type |-> type, conn |-> sk]

\* trace_cong_avoid and trace_init: the event is stored under the socket and
\* submitted.
CubicTrack(p, sk, type) ==
  /\ prog = "tcp_cubic"
  /\ sk \notin closed
  /\ CanReadClock
  /\ ClockRead
  /\ cubic_socket_tracking' = MapUpdate(cubic_socket_tracking, sk, cubic_event(p, sk, type))
  /\ Emit("cubic_events", cubic_event(p, sk, type))
  /\ UNCHANGED <<prog, build, connectVars, zswapVars, fault_entry, ccVars, closed, madviseVars, rssVars,
                 tcpStateVars, cpu, incrs, tally, begun, last>>

\* The probes that only report.
CubicProbe(p, sk, type) ==
  /\ prog = "tcp_cubic"
  /\ sk \notin closed
  /\ CanReadClock
  /\ ClockRead
  /\ Emit("cubic_events", cubic_event(p, sk, type))
  /\ UNCHANGED <<prog, build, allMaps, cpu, incrs, tally, begun, last>>

trace_cong_avoid(p, sk) == CubicTrack(p, sk, EVENT_CONG_AVOID)
trace_init(p, sk) == CubicTrack(p, sk, EVENT_INIT)
trace_recalc_ssthresh(p, sk) == CubicProbe(p, sk, EVENT_SSTHRESH)
trace_state(p, sk) == CubicProbe(p, sk, EVENT_STATE_CHANGE)
trace_cwnd_event(p, sk) == CubicProbe(p, sk, EVENT_CWND_EVENT)
trace_hystart_update(p, sk) == CubicProbe(p, sk, EVENT_HYSTART)

\* The kernel destroys socket sk: its connection is over and no CUBIC
\* function is called on it again. No probe is attached to this.
sk_destruct(sk) ==
  /\ prog = "tcp_cubic"
  /\ sk \notin closed
  /\ closed' = closed \cup {sk}
  /\ UNCHANGED <<prog, build, now, perf, connectVars, zswapVars, fault_entry, ccVars,
                 cubic_socket_tracking, madviseVars, rssVars, tcpStateVars, cpu, emitted,
                 since_poll, tally, incrs, begun, last>>

InitCubic ==
  /\ prog = "tcp_cubic"
  /\ InitMaps

NextCubic ==
  \/ \E p \in Pids, sk \in Socks : trace_cong_avoid(p, sk)
  \/ \E p \in Pids, sk \in Socks : trace_init(p, sk)
  \/ \E p \in Pids, sk \in Socks : trace_recalc_ssthresh(p, sk)
  \/ \E p \in Pids, sk \in Socks : trace_state(p, sk)
  \/ \E p \in Pids, sk \in Socks : trace_cwnd_event(p, sk)
  \/ \E p \in Pids, sk \in Socks : trace_hystart_update(p, sk)
  \/ \E sk \in Socks : sk_destruct(sk)
  \/ perf_buffer_poll("cubic_events")

SpecCubic == InitCubic /\ [][NextCubic]_vars

(* --------------------------- rss_stat tracer -------------------------- *)

\* A firing of the rss_stat tracepoint: the owner of the mm whose counter
\* changed (a thread, not necessarily the current one), the counter (member)
\* and its new size in bytes.
Firings == [owner : Pids, member : {0, 1}, size : {4096, 8192}]

\* The handlers of one firing run on one CPU, and the store has room for more
\* records than there are CPUs: no more firings are under way than the store
\* has room for.
CpuFree == Cardinality({q \in Pids : cpu[q] # Idle}) < MaxEntries

\* RAW_TRACEPOINT_PROBE(rss_stat): a zeroed record with the owner's pid and
\* tgid, inserted under the current thread's id. both: the non-raw handler is
\* attached as well and runs next, on the same CPU.
RAW_TRACEPOINT_PROBE_rss_stat(p, f, both) ==
  LET pid == pid_tgid(p).lo
      stack_data == [pid |-> pid_tgid(f.owner).lo, tgid |-> pid_tgid(f.owner).hi,
                     ts |-> 0, member |-> 0, counter_value |-> 0]
  IN /\ prog = "rss_stat"
     /\ cpu[p] = Idle
     /\ CpuFree
     /\ CanReadClock
     /\ rss_stat_hash' = MapInsert(rss_stat_hash, pid, stack_data)
     /\ cpu' = [cpu EXCEPT ![p] = IF both THEN [pc |-> "raw_done", f |-> f] ELSE Idle]
     /\ NoEmit
     /\ UNCHANGED <<prog, build, now, connectVars, zswapVars, fault_entry, ccVars, cubicVars,
                    madviseVars, tcpStateVars, incrs, tally, begun, last>>

\* TRACEPOINT_PROBE(kmem, rss_stat): completes the record of the thread with
\* the counter, its size in pages and the time, submits it and deletes it.
TRACEPOINT_PROBE_kmem_rss_stat(p) ==
  LET pid == pid_tgid(p).lo
      args == cpu[p].f
  IN /\ prog = "rss_stat"
     /\ cpu[p].pc = "raw_done"
     /\ IF pid \notin DOMAIN rss_stat_hash
        THEN /\ NoEmit
             /\ UNCHANGED <<now, rss_stat_hash>>
        ELSE /\ ClockRead
             /\ Emit("rss_stat_output",
                     [rss_stat_hash[pid] EXCEPT !.member = args.member,
                                                !.counter_value = args.size \div 2^12,
                                                !.ts = now])
             /\ rss_stat_hash' = MapDelete(rss_stat_hash, pid)
     /\ cpu' = [cpu EXCEPT ![p] = Idle]
     /\ UNCHANGED <<prog, build, connectVars, zswapVars, fault_entry, ccVars, cubicVars,
                    madviseVars, tcpStateVars, incrs, tally, begun, last>>

InitRss ==
  /\ prog = "rss_stat"
  /\ InitMaps

NextRss ==
  \/ \E p \in Pids, f \in Firings, both \in BOOLEAN : RAW_TRACEPOINT_PROBE_rss_stat(p, f, both)
  \/ \E p \in Pids : TRACEPOINT_PROBE_kmem_rss_stat(p)
  \/ perf_buffer_poll("rss_stat_output")

SpecRss == InitRss /\ [][NextRss]_vars

(* -------------------- the reads of enrichment fields ------------------ *)

\* What the handlers read from the objects they are passed: the addresses and
\* ports of the socket and of the user address, and the name of the socket's
\* congestion-control algorithm.
ConnFields == {"saddr", "daddr", "sport", "dport"}
CcFields == ConnFields \cup {"ca_name"}
SockContents ==
  [saddr |-> 167772161, daddr |-> 167772162, sport |-> 40000, dport |-> 443,
   ca_name |-> "cubic"]

\* A read of field f that fails, leaving a value of its own in the field.
bpf_probe_read_Garbage(f, ok) == IF f \in ok THEN SockContents[f] ELSE 255

\* bpf_probe_read / bpf_probe_read_kernel(&event.f, size, src): the value of
\* the field when the read succeeds (f \in ok); a failed read zeroes the
\* destination, and the handlers ignore the result.
bpf_probe_read(f, ok) == IF f \in ok THEN SockContents[f] ELSE 0

\* bpf_probe_read_kernel_str(&event.ca_name, ...), guarded by "if (ca_ops)":
\* the name, or the zeroed field.
bpf_probe_read_kernel_str(f, ok) == IF f \in ok THEN SockContents[f] ELSE ""

\* trace_tcp_v4_connect with the fields it reads from uaddr and sk.
enriched_trace_tcp_v4_connect(p, ok) ==
  LET tid == pid_tgid(p).lo
      ts == now
      event == [pid |-> tid, tgid |-> tid_shr_32(p), ts_uptime_us |-> ts \div 1000,
                latency_ns |-> 0, branch_type |-> CONNECT_ENTRY,
                path_type |-> 0, error_code |-> ERR_NONE,
                daddr |-> bpf_probe_read("daddr", ok),
                dport |-> bpf_probe_read("dport", ok),
                saddr |-> bpf_probe_read("saddr", ok),
                sport |-> bpf_probe_read("sport", ok)]
  IN /\ prog = "tcp_v4_connect"
     /\ CanReadClock
     /\ ClockRead
     /\ connect_start_times' = MapUpdate(connect_start_times, tid, ts)
     /\ connect_tracking' = MapUpdate(connect_tracking, tid, event)
     /\ Emit("connect_events", event)
     /\ branch_stats' = ArrayIncr(branch_stats, BranchKey(event))
     /\ Begin("connect_tracking", p, [ts |-> ts])
     /\ Tally(p, event, "entry")
     /\ UNCHANGED <<prog, build, path_stats, error_stats, xConnect>>

\* trace_assign_cc with the fields it reads through get_conn_info and from
\* icsk->icsk_ca_ops.
enriched_trace_assign_cc(p, sk, ok) ==
  LET event == [pid |-> pid_tgid(p).lo, tgid |-> pid_tgid(p).hi,
                ts_uptime_us |-> now \div 1000, event_type |-> EVENT_ASSIGN_CC,
                ca_name |-> bpf_probe_read_kernel_str("ca_name", ok),
                saddr |-> bpf_probe_read("saddr", ok),
                daddr |-> bpf_probe_read("daddr", ok),
                sport |-> bpf_probe_read("sport", ok),
                dport |-> bpf_probe_read("dport", ok)]
  IN /\ prog = "tcp_congestion_control"
     /\ CanReadClock
     /\ ClockRead
     /\ socket_tracking' = MapUpdate(socket_tracking, sk, event)
     /\ Emit("cc_events", event)
     /\ UNCHANGED <<prog, build, connectVars, zswapVars, fault_entry, cubicVars, madviseVars, rssVars,
                    tcpStateVars, cpu, incrs, tally, begun, last>>

InitEnrich ==
  /\ prog \in {"tcp_v4_connect", "tcp_congestion_control"}
  /\ InitMaps

NextEnrich ==
  \/ \E p \in Pids, ok \in SUBSET ConnFields : enriched_trace_tcp_v4_connect(p, ok)
  \/ \E p \in Pids, ok \in SUBSET CcFields : enriched_trace_assign_cc(p, "sk1", ok)
  \/ \E n \in ChannelNames : perf_buffer_poll(n)

SpecEnrich == InitEnrich /\ [][NextEnrich]_vars

(* ---------------- the TCP state tracer, handlers atomic --------------- *)

InitState ==
  /\ prog = "tcp_state"
  /\ InitMaps

NextState ==
  \/ \E p \in Pids, st \in SkStates : trace_tcp_rcv_state_process(p, st)
  \/ \E p \in Pids : st_trace_listen_state(p)
  \/ \E p \in Pids : trace_syn_sent_state(p)
  \/ \E p \in Pids : trace_syn_recv_to_established(p)
  \/ \E p \in Pids : trace_fin_wait1_to_fin_wait2(p)
  \/ \E p \in Pids : trace_to_time_wait(p)
  \/ \E p \in Pids : trace_last_ack(p)
  \/ \E p \in Pids : trace_challenge_ack(p)
  \/ \E p \in Pids : trace_reset(p)
  \/ \E p \in Pids : trace_fast_open(p)
  \/ \E p \in Pids : trace_ack_processing(p)
  \/ \E p \in Pids : trace_data_queue(p)
  \/ \E p \in Pids : trace_abort_on_data(p)
  \/ perf_buffer_poll("tcp_state_events")

SpecState == InitState /\ [][NextState]_vars

(* ------------------ handlers as concurrent contexts ------------------- *)

\* Handlers of different threads run at the same time on different CPUs. A
\* handler is cut where it has read a counter (or looked it up) and has not yet
\* written it: "(*count)++" on a map value is a load, an add and a store, and
\* "lookup, else update" is two map operations.

\* trace_tcp_v4_connect up to the load of *count.
trace_tcp_v4_connect_load(p) ==
  LET tid == pid_tgid(p).lo
      ts == now
      event == [pid |-> tid, tgid |-> tid_shr_32(p), ts_uptime_us |-> ts \div 1000,
                latency_ns |-> 0, branch_type |-> CONNECT_ENTRY,
                path_type |-> 0, error_code |-> ERR_NONE]
  IN /\ prog = "tcp_v4_connect"
     /\ cpu[p] = Idle
     /\ CanReadClock
     /\ ClockRead
     /\ connect_start_times' = MapUpdate(connect_start_times, tid, ts)
     /\ connect_tracking' = MapUpdate(connect_tracking, tid, event)
     /\ Emit("connect_events", event)
     /\ cpu' = [cpu EXCEPT ![p] = [pc |-> "store", val |-> branch_stats[BranchKey(event)]]]
     /\ Begin("connect_tracking", p, [ts |-> ts])
     /\ Tally(p, event, "entry")
     /\ UNCHANGED <<prog, build, connectStats, zswapVars, fault_entry, ccVars, cubicVars, madviseVars, rssVars,
                    tcpStateVars, incrs>>

\* trace_tcp_v4_connect from the store of *count + 1.
trace_tcp_v4_connect_store(p) ==
  /\ prog = "tcp_v4_connect"
  /\ cpu[p].pc = "store"
  /\ branch_stats' = [branch_stats EXCEPT ![CONNECT_ENTRY] = cpu[p].val + 1]
  /\ incrs' = [incrs EXCEPT !.branch_stats = @ + 1]
  /\ cpu' = [cpu EXCEPT ![p] = Idle]
  /\ UNCHANGED <<prog, build, now, perf, connectMaps, path_stats, error_stats, zswapVars,
                 fault_entry, ccVars, cubicVars, madviseVars, rssVars, tcpStateVars, emitted, since_poll, tally,
                 begun, last>>

\* trace_tcp_rcv_state_process up to state_distribution.lookup(&state):
\* total_calls is bumped by an atomic add on the record of key 0, which
\* lookup_or_try_init creates zeroed.
trace_tcp_rcv_state_process_lookup(p, state) ==
  LET stats == IF 0 \in DOMAIN stats_map THEN stats_map[0] ELSE zero_stats
  IN /\ prog = "tcp_state"
     /\ cpu[p] = Idle
     /\ incrs.total_calls < MaxCalls
     /\ stats_map' = MapPut(stats_map, 0, [stats EXCEPT !.total_calls = @ + 1])
     /\ incrs' = [incrs EXCEPT !.total_calls = @ + 1]
     /\ cpu' = [cpu EXCEPT ![p] = [pc |-> "count", state |-> state,
                                   found |-> state \in DOMAIN state_distribution]]
     /\ UNCHANGED <<prog, build, now, perf, connectVars, zswapVars, fault_entry, ccVars, cubicVars, madviseVars, rssVars,
                    state_distribution, emitted, since_poll, tally, begun, last>>

\* trace_tcp_rcv_state_process from the branch on count: an atomic add on the
\* slot the lookup found, else update(&state, &init_count) with init_count 1.
trace_tcp_rcv_state_process_count(p) ==
  /\ prog = "tcp_state"
  /\ cpu[p].pc = "count"
  /\ state_distribution' =
       IF cpu[p].found
       THEN [state_distribution EXCEPT ![cpu[p].state] = @ + 1]
       ELSE MapPut(state_distribution, cpu[p].state, 1)
  /\ incrs' = [incrs EXCEPT !.state_distribution[cpu[p].state] = @ + 1]
  /\ cpu' = [cpu EXCEPT ![p] = Idle]
  /\ UNCHANGED <<prog, build, now, perf, connectVars, zswapVars, fault_entry, ccVars, cubicVars, madviseVars, rssVars,
                 stats_map, emitted, since_poll, tally, begun, last>>

RacePrograms == {"tcp_v4_connect", "tcp_state"}

InitRace ==
  /\ prog \in RacePrograms
  /\ InitMaps

NextRace ==
  \/ \E p \in Pids : trace_tcp_v4_connect_load(p)
  \/ \E p \in Pids : trace_tcp_v4_connect_store(p)
  \/ \E p \in Pids, st \in SkStates : trace_tcp_rcv_state_process_lookup(p, st)
  \/ \E p \in Pids : trace_tcp_rcv_state_process_count(p)

SpecRace == InitRace /\ [][NextRace]_vars

(* ------- the two stores of tcp_v4_connect, written one at a time ------ *)

\* The entry and return handlers of tcp_v4_connect write connect_start_times
\* and connect_tracking by separate map operations; a handler of another
\* thread, on another CPU, can run between the two.

\* trace_tcp_v4_connect up to connect_start_times.update(&tid, &ts).
trace_tcp_v4_connect_start(p) ==
  LET tid == pid_tgid(p).lo
  IN /\ prog = "tcp_v4_connect"
     /\ cpu[p] = Idle
     /\ CanReadClock
     /\ ClockRead
     /\ connect_start_times' = MapUpdate(connect_start_times, tid, now)
     /\ cpu' = [cpu EXCEPT ![p] = [pc |-> "track", ts |-> now]]
     /\ UNCHANGED <<prog, build, perf, connect_tracking, connectStats, zswapVars, fault_entry, ccVars,
                    cubicVars, madviseVars, rssVars, tcpStateVars, emitted, since_poll, tally,
                    incrs, begun, last>>

\* trace_tcp_v4_connect from connect_tracking.update(&tid, &event).
trace_tcp_v4_connect_track(p) ==
  LET tid == pid_tgid(p).lo
      ts == cpu[p].ts
      event == [pid |-> tid, tgid |-> tid_shr_32(p), ts_uptime_us |-> ts \div 1000,
                latency_ns |-> 0, branch_type |-> CONNECT_ENTRY,
                path_type |-> 0, error_code |-> ERR_NONE]
  IN /\ prog = "tcp_v4_connect"
     /\ cpu[p].pc = "track"
     /\ connect_tracking' = MapUpdate(connect_tracking, tid, event)
     /\ Emit("connect_events", event)
     /\ branch_stats' = ArrayIncr(branch_stats, BranchKey(event))
     /\ Begin("connect_tracking", p, [ts |-> ts])
     /\ Tally(p, event, "entry")
     /\ cpu' = [cpu EXCEPT ![p] = Idle]
     /\ UNCHANGED <<prog, build, now, connect_start_times, path_stats, error_stats, zswapVars,
                    fault_entry, ccVars, cubicVars, madviseVars, rssVars, tcpStateVars, incrs>>

\* trace_tcp_v4_connect_return up to connect_start_times.delete(&tid); the
\* whole handler when it finds no tracked record.
trace_tcp_v4_connect_return_start(p, rc) ==
  LET tid == pid_tgid(p).lo
  IN /\ prog = "tcp_v4_connect"
     /\ cpu[p] = Idle
     /\ IF tid \in DOMAIN connect_tracking
        THEN /\ CanReadClock
             /\ ClockRead
             /\ connect_start_times' = MapDelete(connect_start_times, tid)
             /\ cpu' = [cpu EXCEPT ![p] = [pc |-> "untrack", ev |-> Returned(tid, rc)]]
             /\ UNCHANGED <<begun, last>>
        ELSE /\ End("connect_tracking", p)
             /\ UNCHANGED <<now, connect_start_times, cpu>>
     /\ UNCHANGED <<prog, build, perf, connect_tracking, connectStats, zswapVars, fault_entry, ccVars,
                    cubicVars, madviseVars, rssVars, tcpStateVars, emitted, since_poll, tally, incrs>>

\* trace_tcp_v4_connect_return from the classification of the result to
\* connect_tracking.delete(&tid).
trace_tcp_v4_connect_return_untrack(p) ==
  LET tid == pid_tgid(p).lo
      ev == cpu[p].ev
  IN /\ prog = "tcp_v4_connect"
     /\ cpu[p].pc = "untrack"
     /\ path_stats' = IF ev.error_code = 0 THEN ArrayIncr(path_stats, PATH_FAST)
                      ELSE path_stats
     /\ Emit("connect_events", ev)
     /\ branch_stats' = ArrayIncr(branch_stats, BranchKey(ev))
     /\ connect_tracking' = MapDelete(connect_tracking, tid)
     /\ Tally(tid, ev, "return")
     /\ End("connect_tracking", p)
     /\ cpu' = [cpu EXCEPT ![p] = Idle]
     /\ UNCHANGED <<prog, build, now, connect_start_times, error_stats, zswapVars, fault_entry,
                    ccVars, cubicVars, madviseVars, rssVars, tcpStateVars, incrs>>

InitPair ==
  /\ prog = "tcp_v4_connect"
  /\ InitMaps

NextPair ==
  \/ \E p \in Pids : trace_tcp_v4_connect_start(p)
  \/ \E p \in Pids : trace_tcp_v4_connect_track(p)
  \/ \E p \in Pids, rc \in RetCodes : trace_tcp_v4_connect_return_start(p, rc)
  \/ \E p \in Pids : trace_tcp_v4_connect_return_untrack(p)
  \/ perf_buffer_poll("connect_events")

SpecPair == InitPair /\ [][NextPair]_vars


(* ---------------- contexts that terminate, run without end ------------- *)

\* The threads of the zswap tracer as they come and go: a thread fires entry
\* probes while it lives, and may terminate at any point between probes, its
\* record still stored. The behaviours are infinite, so the clock is kept
\* modulo MaxClockReads ticks (the timestamps play no part in reclamation) and
\* the return probes, whose events would pile up without end, are left out.
Exited == [pc |-> "exited"]

live_trace_zswap_store_entry(p) ==
  LET id == pid_tgid(p)
  IN /\ prog = "zswap_runtime"
     /\ cpu[p] = Idle
     /\ now' = (now + TickNs) % (MaxClockReads * TickNs)
     /\ stores' = MapUpdate(stores, id, now)
     /\ NoEmit
     /\ Begin("stores", p, [ts |-> now])
     /\ UNCHANGED <<prog, build, loads, invalidates, xZswap>>

live_trace_zswap_load_entry(p) ==
  LET id == pid_tgid(p)
  IN /\ prog = "zswap_runtime"
     /\ cpu[p] = Idle
     /\ now' = (now + TickNs) % (MaxClockReads * TickNs)
     /\ loads' = MapUpdate(loads, id, now)
     /\ NoEmit
     /\ Begin("loads", p, [ts |-> now])
     /\ UNCHANGED <<prog, build, stores, invalidates, xZswap>>

\* Thread p terminates (it is killed, or exits inside the probed function):
\* no probe fires for it again. At least one other thread stays alive.
do_exit(p) ==
  /\ cpu[p] = Idle
  /\ \E q \in Pids \ {p} : cpu[q] = Idle
  /\ cpu' = [cpu EXCEPT ![p] = Exited]
  /\ UNCHANGED <<prog, build, now, perf, allMaps, emitted, since_poll, tally, incrs, begun, last>>

InitReap ==
  /\ prog = "zswap_runtime"
  /\ InitMaps

NextReap ==
  \/ \E p \in Pids : live_trace_zswap_store_entry(p)
  \/ \E p \in Pids : live_trace_zswap_load_entry(p)
  \/ \E p \in Pids : do_exit(p)

\* Every thread that lives keeps issuing entry probes.
SpecReap ==
  /\ InitReap
  /\ [][NextReap]_vars
  /\ \A p \in Pids : WF_vars(live_trace_zswap_store_entry(p))
  /\ \A p \in Pids : WF_vars(live_trace_zswap_load_entry(p))

(* ------------------------------ properties ---------------------------- *)

\* The history of thread p at store s.
Hist(s, p) == begun[s][p]

\* C1: the event the tcp_v4_connect return probe emits for a thread carries
\* latency t1 - t0, t0 the clock read of the thread's entry probe and t1 that of
\* the return probe; a return probe with no entry probe since the last return
\* probe emits nothing.
C1_ReturnLatency ==
  [][\A p \in Pids, rc \in RetCodes :
       trace_tcp_v4_connect_return(p, rc) =>
         /\ (Hist("connect_tracking", p).n > 0 /\ p \in DOMAIN connect_tracking)
              => /\ Len(emitted') = 1
                 /\ emitted'[1].latency_ns = now - Hist("connect_tracking", p).rec.ts
         /\ (Hist("connect_tracking", p).n = 0) => emitted' = <<>>]_vars

\* A return probe with result 0 has just emitted its event, two clock reads
\* after the entry probe of its thread.
C1_Witness ==
  /\ prog = "tcp_v4_connect"
  /\ \E p \in Pids :
       /\ last = [kind |-> "return", s |-> "connect_tracking", p |-> p, n |-> 1]
       /\ emitted = <<[pid |-> p, tgid |-> 0, ts_uptime_us |-> (2 * TickNs) \div 1000,
                       latency_ns |-> 2 * TickNs, branch_type |-> CONNECT_SUCCESS,
                       path_type |-> PATH_FAST, error_code |-> 0]>>

\* C2: when two entry probes fired for a key with no return probe between them,
\* the event of the next return probe is computed from the second entry: the
\* connect latency is the return's clock read minus the second entry's, the
\* zswap event starts at the second entry's clock read, the page-fault event
\* carries the second entry's time and address.
C2_SecondEntryWins ==
  [][\A p \in Pids :
       /\ \A rc \in RetCodes :
            /\ (trace_tcp_v4_connect_return(p, rc) /\ emitted' # <<>>
                  /\ Hist("connect_tracking", p).n = 2)
                 => /\ Len(emitted') = 1
                    /\ emitted'[1].latency_ns = now - Hist("connect_tracking", p).rec.ts
            /\ (trace_zswap_store_return(p, rc) /\ emitted' # <<>>
                  /\ Hist("stores", p).n = 2)
                 => /\ Len(emitted') = 1
                    /\ emitted'[1].start_ts = Hist("stores", p).rec.ts
            /\ (trace_zswap_load_return(p, rc) /\ emitted' # <<>>
                  /\ Hist("loads", p).n = 2)
                 => /\ Len(emitted') = 1
                    /\ emitted'[1].start_ts = Hist("loads", p).rec.ts
            /\ (trace_zswap_invalidate_return(p, rc) /\ emitted' # <<>>
                  /\ Hist("invalidates", p).n = 2)
                 => /\ Len(emitted') = 1
                    /\ emitted'[1].start_ts = Hist("invalidates", p).rec.ts
       /\ \A ret \in FaultRets :
            (trace_handle_mm_fault_return(p, ret) /\ emitted' # <<>>
               /\ Hist("fault_entry", p).n = 2)
              => /\ Len(emitted') = 1
                 /\ emitted'[1].ts_uptime_us = Hist("fault_entry", p).rec.ts_start \div 1000
                 /\ emitted'[1].address = Hist("fault_entry", p).rec.address]_vars

\* Entry probes at clock 0 and TickNs, then the return probe at 2 * TickNs: its
\* event carries latency TickNs.
C2_Witness ==
  /\ prog = "tcp_v4_connect"
  /\ now = 3 * TickNs
  /\ last.kind = "return" /\ last.s = "connect_tracking" /\ last.n = 2
  /\ Len(emitted) = 1
  /\ emitted[1].latency_ns = TickNs

\* C3: the event kretprobe__do_madvise emits for a thread, when an entry probe
\* has fired for the thread since its last return probe, is the record (address,
\* length, advice, timestamp) the most recent entry probe of the thread captured.
C3_LatestEntryReported ==
  [][\A p \in Pids, rc \in RetCodes :
       (kretprobe__do_madvise(p, rc) /\ emitted' # <<>> /\ Hist("madvise_hash", p).n > 0)
         => emitted' = <<Hist("madvise_hash", p).rec>>]_vars

\* C4: no correlation store ever holds more records than its maximum.
C4_StoresBounded ==
  /\ Cardinality(DOMAIN connect_start_times) <= MaxEntries
  /\ Cardinality(DOMAIN connect_tracking) <= MaxEntries
  /\ Cardinality(DOMAIN madvise_hash) <= MaxEntries
  /\ Cardinality(DOMAIN mm_madvise_hash) <= MaxEntries
  /\ Cardinality(DOMAIN munmap_hash) <= MaxEntries
  /\ Cardinality(DOMAIN fault_entry) <= MaxEntries
  /\ Cardinality(DOMAIN stores) <= MaxEntries
  /\ Cardinality(DOMAIN loads) <= MaxEntries
  /\ Cardinality(DOMAIN invalidates) <= MaxEntries

\* An entry probe has just fired for a thread with no record while the store
\* was full: the store is still full and holds no record of the thread.
C4_Witness ==
  /\ prog = "page_fault"
  /\ last.kind = "entry" /\ last.s = "fault_entry"
  /\ last.p \notin DOMAIN fault_entry
  /\ Cardinality(DOMAIN fault_entry) = MaxEntries

\* C5: once every context has finished its handler, each counter key is as
\* many higher than at the start (0) as increments were executed on it:
\* branch_stats[CONNECT_ENTRY], total_calls of stats_map, and every key of
\* state_distribution.
C5_NoLostIncrement ==
  (\A p \in Pids : cpu[p] = Idle) =>
    /\ branch_stats[CONNECT_ENTRY] = incrs.branch_stats
    /\ (IF 0 \in DOMAIN stats_map THEN stats_map[0].total_calls ELSE 0) = incrs.total_calls
    /\ \A st \in SkStates :
         (IF st \in DOMAIN state_distribution THEN state_distribution[st] ELSE 0)
           = incrs.state_distribution[st]

\* C6: a channel that has received ChannelCap + 1 submissions and no drain
\* holds the first ChannelCap of them, in submission order, and has counted
\* one lost record.
C6_ThirdSubmissionDropped ==
  \A name \in ChannelNames :
    (~since_poll[name].polled /\ Len(since_poll[name].sent) = ChannelCap + 1)
      => /\ perf[name].buf = SubSeq(since_poll[name].sent, 1, ChannelCap)
         /\ perf[name].lost = 1

\* The entry probe whose submission was dropped has completed: the record it
\* stored is in connect_tracking and branch_stats counts it.
C6_Witness ==
  /\ prog = "tcp_v4_connect"
  /\ ~since_poll["connect_events"].polled
  /\ Len(since_poll["connect_events"].sent) = ChannelCap + 1
  /\ perf["connect_events"].lost = 1
  /\ last.kind = "entry"
  /\ last.p \in DOMAIN connect_tracking
  /\ connect_tracking[last.p] = emitted[1]
  /\ emitted[1] \notin {perf["connect_events"].buf[i] : i \in 1 .. ChannelCap}
  /\ branch_stats[CONNECT_ENTRY] = ChannelCap + 1

\* C7: after a return probe has run for a thread, whatever the return code, the
\* store of the probed function holds no record under the thread's key.
C7_ReturnRemoves ==
  [][\A p \in Pids :
       /\ \A rc \in RetCodes :
            /\ trace_tcp_v4_connect_return(p, rc)
                 => pid_tgid(p).lo \notin DOMAIN connect_tracking'
            /\ trace_zswap_store_return(p, rc) => pid_tgid(p) \notin DOMAIN stores'
            /\ trace_zswap_load_return(p, rc) => pid_tgid(p) \notin DOMAIN loads'
            /\ trace_zswap_invalidate_return(p, rc)
                 => pid_tgid(p) \notin DOMAIN invalidates'
            /\ kretprobe__do_madvise(p, rc) => pid_tgid(p).lo \notin DOMAIN madvise_hash'
            /\ mm_kretprobe__do_madvise(p, rc)
                 => pid_tgid(p).lo \notin DOMAIN mm_madvise_hash'
            /\ kretprobe__do_vmi_align_munmap(p, rc)
                 => pid_tgid(p).lo \notin DOMAIN munmap_hash'
       /\ \A ret \in FaultRets :
            trace_handle_mm_fault_return(p, ret)
              => pid_tgid(p).lo \notin DOMAIN fault_entry']_vars

\* The branch probes of tcp_v4_connect, for thread p.
ConnectBranchProbes(p) ==
  \/ trace_invalid_addrlen(p)
  \/ trace_wrong_family(p)
  \/ trace_route_lookup(p)
  \/ \E rc \in RetCodes : trace_route_error(p, rc)
  \/ trace_multicast_bcast(p)
  \/ trace_no_src_addr(p)
  \/ \E rc \in RetCodes : trace_src_bind_fail(p, rc)
  \/ trace_port_alloc(p)
  \/ trace_hash_error(p)
  \/ trace_fastopen_defer(p)
  \/ trace_regular_syn(p)
  \/ \E rc \in RetCodes : trace_tcp_connect_err(p, rc)
  \/ trace_enetunreach(p)
  \/ trace_new_sport(p)
  \/ trace_write_seq_init(p)
  \/ trace_error_path(p)

\* A handler execution that is a silent skip.
SilentSkip == emitted' = <<>> /\ UNCHANGED <<allMaps, perf, now>>

\* C8: a branch or return probe that finds no record under its key emits
\* nothing, bumps no counter and changes no store.
C8_AbsentIsSilentSkip ==
  [][\A p \in Pids :
       /\ (pid_tgid(p).lo \notin DOMAIN connect_tracking
             /\ (ConnectBranchProbes(p)
                   \/ \E rc \in RetCodes : trace_tcp_v4_connect_return(p, rc)))
            => SilentSkip
       /\ (pid_tgid(p).lo \notin DOMAIN fault_entry
             /\ \E ret \in FaultRets : trace_handle_mm_fault_return(p, ret))
            => SilentSkip
       /\ (pid_tgid(p) \notin DOMAIN stores
             /\ \E rc \in RetCodes : trace_zswap_store_return(p, rc))
            => SilentSkip
       /\ (pid_tgid(p) \notin DOMAIN loads
             /\ \E rc \in RetCodes : trace_zswap_load_return(p, rc))
            => SilentSkip
       /\ (pid_tgid(p) \notin DOMAIN invalidates
             /\ \E rc \in RetCodes : trace_zswap_invalidate_return(p, rc))
            => SilentSkip
       /\ (pid_tgid(p).lo \notin DOMAIN madvise_hash
             /\ \E rc \in RetCodes : kretprobe__do_madvise(p, rc))
            => SilentSkip
       /\ (pid_tgid(p).lo \notin DOMAIN mm_madvise_hash
             /\ \E rc \in RetCodes : mm_kretprobe__do_madvise(p, rc))
            => SilentSkip
       /\ (pid_tgid(p).lo \notin DOMAIN munmap_hash
             /\ \E rc \in RetCodes : kretprobe__do_vmi_align_munmap(p, rc))
            => SilentSkip]_vars

\* A branch probe has just fired for a thread that has no record, while the
\* other thread has one and counters are non-zero: nothing was emitted.
C8_Witness ==
  /\ prog = "tcp_v4_connect"
  /\ last.kind = "inflight" /\ last.n = 0
  /\ last.p \notin DOMAIN connect_tracking
  /\ connect_tracking # EmptyMap
  /\ emitted = <<>>
  /\ branch_stats[CONNECT_ENTRY] = 1

C10_OneTerminalOutcome ==
  [][\A p \in Pids, rc \in RetCodes :
       (trace_tcp_v4_connect_return(p, rc) /\ pid_tgid(p).lo \in DOMAIN connect_tracking)
         => tally'.term[p] = 1]_vars

\* The branches of the receive path on which the packet is dropped: the ones
\* whose names and handler comments say so (not for this host, no socket,
\* checksum error, policy drop; in the extended tracer also packet too small,
\* min-TTL drop, socket-filter drop, MD5 failure, listen overflow/drop).
RcvDroppingBranches ==
  {TCP_BRANCH_NOT_FOR_HOST, TCP_BRANCH_NO_SOCKET, TCP_BRANCH_CHECKSUM_ERR,
   TCP_BRANCH_XFRM_DROP, TCP_BRANCH_PKT_TOO_SMALL, TCP_BRANCH_MIN_TTL_DROP,
   TCP_BRANCH_SOCKET_FILTER, TCP_BRANCH_MD5_FAIL, TCP_BRANCH_LISTEN_DROP}

\* C11: in every emitted tcp_v4_rcv event, of the 9-branch and of the
\* 19-branch tracer, drop_reason is non-zero if and only if branch_type is one
\* of the packet-dropping branches of the receive path.
C11_DropReasonIffDropping ==
  prog \in {"tcp_v4_rcv", "tcp_v4_rcv_ext"}
    => \A i \in 1..Len(emitted) :
         (emitted[i].drop_reason # 0) <=> (emitted[i].branch_type \in RcvDroppingBranches)

\* C12: in every emitted tcp_v4_connect event, whatever the order of the
\* branch probes between entry and return, error_code is non-zero only when
\* branch_type is a failing/terminal outcome, and every event of a failing
\* outcome (path_type PATH_ERROR) carries a non-zero error_code.
C12_ErrorCodeIffFailing ==
  prog = "tcp_v4_connect"
    => \A i \in 1..Len(emitted) :
         /\ (emitted[i].error_code # 0) => (emitted[i].branch_type \in TerminalBranches)
         /\ (emitted[i].branch_type \in FailingBranches /\ emitted[i].path_type = PATH_ERROR)
              => (emitted[i].error_code # 0)

\* C13: every branch outcome in an emitted event belongs to the enumeration
\* of the event's operation: CONNECT_* 0..20 in connect events, TCP_BRANCH_*
\* 0..8 (0..18 in the extended tracer) in receive events, EVENT_* 1..5 in
\* congestion-control events.
C13_OutcomeInOwnEnumeration ==
  \A i \in 1..Len(emitted) :
    /\ prog = "tcp_v4_connect"
         => emitted[i].branch_type \in CONNECT_ENTRY..CONNECT_ERROR_PATH
    /\ prog = "tcp_v4_rcv"
         => emitted[i].branch_type \in TCP_BRANCH_ENTRY..TCP_BRANCH_NEW_SYN_RECV
    /\ prog = "tcp_v4_rcv_ext"
         => emitted[i].branch_type \in TCP_BRANCH_ENTRY..TCP_BRANCH_ESTABLISHED
    /\ prog = "tcp_congestion_control"
         => emitted[i].event_type \in EVENT_ASSIGN_CC..EVENT_CLEANUP_CC

\* A congestion-control probe has just reported the highest value of its
\* enumeration, with the channel already holding an event of another probe.
C13_Witness ==
  /\ prog = "tcp_congestion_control"
  /\ Len(emitted) = 1
  /\ emitted[1].event_type = EVENT_CLEANUP_CC
  /\ Len(perf["cc_events"].buf) = 2
  /\ perf["cc_events"].buf[1].event_type = EVENT_ASSIGN_CC

\* C14: the classification at the tcp_v4_connect return probe is total: the
\* event of a return with result code 0 carries CONNECT_SUCCESS, and the event
\* of a return with a non-zero result code carries a failing outcome, never
\* CONNECT_ENTRY or another non-failing in-flight outcome.
C14_ReturnClassificationTotal ==
  [][\A p \in Pids, rc \in RetCodes :
       (trace_tcp_v4_connect_return(p, rc) /\ emitted' # <<>>)
         => /\ (rc = 0) => (emitted'[1].branch_type = CONNECT_SUCCESS)
            /\ (rc # 0) => (emitted'[1].branch_type \in FailingBranches)]_vars

\* C15: a tcp_v4_connect branch probe (every probe but entry and return) may
\* modify the record of its own key and nothing else of the correlation
\* stores: the key sets of connect_tracking and connect_start_times, the
\* records of the other keys and the start times stay as they are.
C15_BranchProbesKeepKeys ==
  [][\A p \in Pids :
       ConnectBranchProbes(p)
         => /\ DOMAIN connect_tracking' = DOMAIN connect_tracking
            /\ \A k \in DOMAIN connect_tracking \ {pid_tgid(p).lo} :
                 connect_tracking'[k] = connect_tracking[k]
            /\ connect_start_times' = connect_start_times]_vars

\* A branch probe has just reported a failing outcome and the record, now
\* carrying that outcome, and its start time are still stored.
C15_Witness ==
  /\ prog = "tcp_v4_connect"
  /\ last.kind = "inflight"
  /\ emitted # <<>>
  /\ last.p \in DOMAIN connect_tracking
  /\ last.p \in DOMAIN connect_start_times
  /\ connect_tracking[last.p].branch_type = CONNECT_TCP_CONNECT_ERR
  /\ connect_tracking[last.p].path_type = PATH_ERROR

\* C16: a tcp_v4_connect handler whose submission finds the channel full does
\* to the stores and counters what it does when the submission succeeds: the
\* record is dropped and counted as lost, and the entry probe still stores its
\* record and start time, a branch probe still writes the record it reports,
\* the return probe still removes both, and branch_stats (and path_stats at a
\* successful return) still count the observation.
C16_SaturationKeepsEffects ==
  [][\A p \in Pids :
       LET tid == pid_tgid(p).lo
           ev == emitted'[1]
           full == Len(perf["connect_events"].buf) = ChannelCap
       IN /\ (full /\ trace_tcp_v4_connect(p))
               => /\ perf'["connect_events"].lost = perf["connect_events"].lost + 1
                  /\ connect_tracking' = MapUpdate(connect_tracking, tid, ev)
                  /\ connect_start_times' = MapUpdate(connect_start_times, tid, now)
                  /\ branch_stats' = ArrayIncr(branch_stats, CONNECT_ENTRY)
          /\ (full /\ ConnectBranchProbes(p) /\ emitted' # <<>>)
               => /\ perf'["connect_events"].lost = perf["connect_events"].lost + 1
                  /\ connect_tracking' = [connect_tracking EXCEPT ![tid] = ev]
                  /\ branch_stats' = ArrayIncr(branch_stats, BranchKey(ev))
          /\ \A rc \in RetCodes :
               (full /\ trace_tcp_v4_connect_return(p, rc) /\ emitted' # <<>>)
                 => /\ perf'["connect_events"].lost = perf["connect_events"].lost + 1
                    /\ tid \notin DOMAIN connect_tracking'
                    /\ tid \notin DOMAIN connect_start_times'
                    /\ branch_stats' = ArrayIncr(branch_stats, BranchKey(ev))
                    /\ (rc = 0) => (path_stats' = ArrayIncr(path_stats, PATH_FAST))]_vars

\* A branch probe has just run with the channel full: its event was dropped,
\* the record in the store carries the reported outcome and error_stats has
\* counted it.
C16_Witness ==
  /\ prog = "tcp_v4_connect"
  /\ last.kind = "inflight"
  /\ emitted # <<>>
  /\ perf["connect_events"].lost = 1
  /\ Len(perf["connect_events"].buf) = ChannelCap
  /\ emitted[1] \notin {perf["connect_events"].buf[i] : i \in 1 .. ChannelCap}
  /\ connect_tracking[last.p] = emitted[1]
  /\ emitted[1].branch_type = CONNECT_INVALID_ADDRLEN
  /\ error_stats[1] = 1

\* C17: every aggregate counter is monotonically non-decreasing: no step of a
\* handler, under any interleaving with the handlers of other contexts,
\* lowers the value stored for a key of state_distribution, stats_map,
\* branch_stats, path_stats or error_stats (or removes the key).
C17_CountersNeverDecrease ==
  [][/\ \A k \in DOMAIN branch_stats : branch_stats'[k] >= branch_stats[k]
     /\ \A k \in DOMAIN path_stats : path_stats'[k] >= path_stats[k]
     /\ \A k \in DOMAIN error_stats : error_stats'[k] >= error_stats[k]
     /\ \A st \in DOMAIN state_distribution :
          /\ st \in DOMAIN state_distribution'
          /\ state_distribution'[st] >= state_distribution[st]
     /\ \A k \in DOMAIN stats_map :
          /\ k \in DOMAIN stats_map'
          /\ stats_map'[k].total_calls >= stats_map[k].total_calls]_vars

\* The branch probes of the TCP state tracer, each with the field of
\* stats_map[0] that is its own.
StateBranchProbe(p, field) ==
  \/ field = "listen_state" /\ st_trace_listen_state(p)
  \/ field = "syn_sent_state" /\ trace_syn_sent_state(p)
  \/ field = "syn_recv_to_established" /\ trace_syn_recv_to_established(p)
  \/ field = "fin_wait1_to_fin_wait2" /\ trace_fin_wait1_to_fin_wait2(p)
  \/ field = "to_time_wait" /\ trace_to_time_wait(p)
  \/ field = "to_last_ack" /\ trace_last_ack(p)
  \/ field = "challenge_acks" /\ trace_challenge_ack(p)
  \/ field = "resets" /\ trace_reset(p)
  \/ field = "fast_open_checks" /\ trace_fast_open(p)
  \/ field = "ack_processing" /\ trace_ack_processing(p)
  \/ field = "data_queued" /\ trace_data_queue(p)
  \/ field = "abort_on_data" /\ trace_abort_on_data(p)

\* C18: every firing of a branch probe of the TCP state tracer, in whatever
\* order the probes fire (a branch probe before the first main entry probe
\* included), raises its own stats_map field by exactly one, so that the
\* field counts the events the probe has emitted.
C18_BranchProbeAlwaysCounts ==
  [][\A p \in Pids, f \in BranchFields :
       StateBranchProbe(p, f)
         => /\ 0 \in DOMAIN stats_map'
            /\ stats_map'[0][f]
                 = (IF 0 \in DOMAIN stats_map THEN stats_map[0][f] ELSE 0) + 1]_vars

\* A store that holds its maximum of records and none under key k.
FullWithout(m, k) == Cardinality(DOMAIN m) = MaxEntries /\ k \notin DOMAIN m

\* C19: an entry probe that fires for a key its store does not hold, with the
\* store at capacity, has one outcome, which is one of the two documented
\* policies, namely rejection: the new record is not inserted and every
\* record of the store is left as it is.
C19_FullStoreRejectsNew ==
  [][\A p \in Pids :
       /\ (trace_tcp_v4_connect(p) /\ FullWithout(connect_tracking, pid_tgid(p).lo))
            => connect_tracking' = connect_tracking
       /\ (trace_tcp_v4_connect(p) /\ FullWithout(connect_start_times, pid_tgid(p).lo))
            => connect_start_times' = connect_start_times
       /\ \A c \in MadviseCalls :
            /\ (kprobe__do_madvise(p, c) /\ FullWithout(madvise_hash, pid_tgid(p).lo))
                 => madvise_hash' = madvise_hash
            /\ (mm_kprobe__do_madvise(p, c) /\ FullWithout(mm_madvise_hash, pid_tgid(p).lo))
                 => mm_madvise_hash' = mm_madvise_hash
       /\ \A c \in MunmapCalls :
            (kprobe__do_vmi_align_munmap(p, c) /\ FullWithout(munmap_hash, pid_tgid(p).lo))
              => munmap_hash' = munmap_hash
       /\ \A c \in FaultCalls :
            (trace_handle_mm_fault_entry(p, c) /\ FullWithout(fault_entry, pid_tgid(p).lo))
              => fault_entry' = fault_entry
       /\ (trace_zswap_store_entry(p) /\ FullWithout(stores, pid_tgid(p)))
            => stores' = stores
       /\ (trace_zswap_load_entry(p) /\ FullWithout(loads, pid_tgid(p)))
            => loads' = loads
       /\ (trace_zswap_invalidate_entry(p) /\ FullWithout(invalidates, pid_tgid(p)))
            => invalidates' = invalidates]_vars

\* The entry probe of do_madvise has just fired for a thread with no record
\* while madvise_hash was full: the store still holds exactly the record of
\* the other thread, as that thread's entry probe captured it.
C19_Witness ==
  /\ prog = "madvise"
  /\ last.kind = "entry" /\ last.s = "madvise_hash"
  /\ last.p \notin DOMAIN madvise_hash
  /\ Cardinality(DOMAIN madvise_hash) = MaxEntries
  /\ \E q \in Pids \ {last.p} :
       /\ q \in DOMAIN madvise_hash
       /\ madvise_hash[q] = begun["madvise_hash"][q].rec

\* C20: the record of a thread that terminated after its entry probe and
\* before a return probe is eventually removed from its store, while the
\* other threads keep issuing entry probes.
C20_OrphanEventuallyReclaimed ==
  \A p \in Pids :
    /\ (cpu[p] = Exited /\ pid_tgid(p) \in DOMAIN stores)
         ~> (pid_tgid(p) \notin DOMAIN stores)
    /\ (cpu[p] = Exited /\ pid_tgid(p) \in DOMAIN loads)
         ~> (pid_tgid(p) \notin DOMAIN loads)

\* a is b with some elements left out, the others in the order of b.
IsOrderedSubSeq(a, b) ==
  \E f \in [1 .. Len(a) -> 1 .. Len(b)] :
    /\ \A i \in 1 .. Len(a) : a[i] = b[f[i]]
    /\ \A i, j \in 1 .. Len(a) : (i < j) => (f[i] < f[j])

\* The records of thread p in a sequence of connect events.
OfThread(seq, p) == SelectSeq(seq, LAMBDA e : e.pid = pid_tgid(p).lo)

\* C21: the events a thread submits for a tcp_v4_connect invocation (entry,
\* in-flight branches, return) reach the consumer in the order of submission:
\* what the channel holds of the thread, front to back, which the next drain
\* delivers, is an order-preserving selection of what the thread submitted
\* since the last drain.
C21_DeliveredInSubmissionOrder ==
  prog = "tcp_v4_connect"
    => \A p \in Pids :
         IsOrderedSubSeq(OfThread(perf["connect_events"].buf, p),
                         OfThread(since_poll["connect_events"].sent, p))

\* The entry and the return event of one thread are in the channel in that
\* order, none lost.
C21_Witness ==
  /\ prog = "tcp_v4_connect"
  /\ ChannelCap >= 2
  /\ LET buf == perf["connect_events"].buf
     IN /\ Len(buf) = ChannelCap
        /\ buf[1].pid = buf[2].pid
        /\ buf[1].branch_type = CONNECT_ENTRY
        /\ buf[2].branch_type = CONNECT_SUCCESS
        /\ buf = SubSeq(since_poll["connect_events"].sent, 1, ChannelCap)

\* C22: the records of the CUBIC tracer's socket_tracking do not accumulate:
\* once a socket's connection is over, the store holds no record of it, so
\* the store holds at most as many records as there are live sockets.
C22_NoRecordOfClosedSocket ==
  \A sk \in closed : sk \notin DOMAIN cubic_socket_tracking

\* Some handler of a thread-keyed tracer runs in thread p.
ThreadHandler(p) ==
  \/ trace_tcp_v4_connect(p)
  \/ ConnectBranchProbes(p)
  \/ \E rc \in RetCodes :
       \/ trace_tcp_v4_connect_return(p, rc)
       \/ trace_zswap_store_return(p, rc)
       \/ trace_zswap_load_return(p, rc)
       \/ trace_zswap_invalidate_return(p, rc)
       \/ kretprobe__do_madvise(p, rc)
       \/ mm_kretprobe__do_madvise(p, rc)
       \/ kretprobe__do_vmi_align_munmap(p, rc)
  \/ trace_zswap_store_entry(p)
  \/ trace_zswap_load_entry(p)
  \/ trace_zswap_invalidate_entry(p)
  \/ \E c \in FaultCalls : trace_handle_mm_fault_entry(p, c)
  \/ \E r \in FaultRets : trace_handle_mm_fault_return(p, r)
  \/ \E c \in MadviseCalls : kprobe__do_madvise(p, c) \/ mm_kprobe__do_madvise(p, c)
  \/ \E c \in MunmapCalls : kprobe__do_vmi_align_munmap(p, c)

\* The keys whose record differs between the maps m and n.
ChangedKeys(m, n) ==
  {k \in (DOMAIN m) \cup (DOMAIN n) :
     \/ k \notin DOMAIN m
     \/ k \notin DOMAIN n
     \/ m[k] # n[k]}

C24_FailedReadsYieldZero ==
  [][\A p \in Pids :
       /\ \A ok \in SUBSET ConnFields :
            enriched_trace_tcp_v4_connect(p, ok)
              => /\ Len(emitted') = 1
                 /\ \A f \in ConnFields \ ok : emitted'[1][f] = 0
                 /\ \A f \in ok : emitted'[1][f] = SockContents[f]
                 /\ emitted'[1].pid = pid_tgid(p).lo
                 /\ emitted'[1].ts_uptime_us = now \div 1000
                 /\ emitted'[1].branch_type = CONNECT_ENTRY
                 /\ emitted'[1].latency_ns = 0
                 /\ emitted'[1].error_code = ERR_NONE
                 /\ connect_tracking' = MapUpdate(connect_tracking, pid_tgid(p).lo, emitted'[1])
       /\ \A ok \in SUBSET CcFields :
            enriched_trace_assign_cc(p, "sk1", ok)
              => /\ Len(emitted') = 1
                 /\ \A f \in ConnFields \ ok : emitted'[1][f] = 0
                 /\ ("ca_name" \notin ok) => (emitted'[1].ca_name = "")
                 /\ \A f \in ok : emitted'[1][f] = SockContents[f]
                 /\ emitted'[1].pid = pid_tgid(p).lo
                 /\ emitted'[1].tgid = pid_tgid(p).hi
                 /\ emitted'[1].ts_uptime_us = now \div 1000
                 /\ emitted'[1].event_type = EVENT_ASSIGN_CC]_vars

\* The entry probe of tcp_v4_connect has just emitted an event in which the
\* reads of the destination failed and those of the source succeeded.
C24_Witness ==
  /\ prog = "tcp_v4_connect"
  /\ last.kind = "entry"
  /\ Len(emitted) = 1
  /\ emitted[1].daddr = 0 /\ emitted[1].dport = 0
  /\ emitted[1].saddr = SockContents.saddr /\ emitted[1].sport = SockContents.sport
  /\ emitted[1].branch_type = CONNECT_ENTRY
  /\ perf["connect_events"].buf = <<emitted[1]>>

\* C25: an event a branch or return probe of tcp_v4_connect emits carries as
\* latency its observation time minus the start time written by the entry
\* execution that created the tracked record it was built from (the thread's
\* latest entry, also when entries repeat without a return); and every tracked
\* record has beside it the start time of that same entry.
C25_LatencyFromSameEntry ==
  [][\A p \in Pids :
       /\ pid_tgid(p).lo \in DOMAIN connect_tracking
            => /\ pid_tgid(p).lo \in DOMAIN connect_start_times
               /\ connect_start_times[pid_tgid(p).lo] = Hist("connect_tracking", p).rec.ts
       /\ ((ConnectBranchProbes(p) \/ \E rc \in RetCodes : trace_tcp_v4_connect_return(p, rc))
             /\ emitted' # <<>>)
            => emitted'[1].latency_ns = now - Hist("connect_tracking", p).rec.ts]_vars

\* A branch probe has just reported on a thread that entered twice without
\* returning: the latency is the time since the second entry.
C25_Witness ==
  /\ prog = "tcp_v4_connect"
  /\ last.kind = "inflight" /\ last.n = 2
  /\ Len(emitted) = 1
  /\ emitted[1].latency_ns = TickNs
  /\ now = 3 * TickNs

\* C26: in the madvise/munmap tracer a return probe with return code 0 that
\* finds the record of its thread emits exactly one event, built from that
\* record, and removes the record; a return probe with a non-zero return code
\* emits nothing and removes the record.
C26_ReturnEmitsThenRemoves ==
  [][\A p \in Pids, rc \in RetCodes :
       /\ (mm_kretprobe__do_madvise(p, rc) /\ pid_tgid(p).lo \in DOMAIN mm_madvise_hash)
            => /\ emitted' = IF rc = 0 THEN <<mm_madvise_hash[pid_tgid(p).lo]>> ELSE <<>>
               /\ pid_tgid(p).lo \notin DOMAIN mm_madvise_hash'
       /\ (kretprobe__do_vmi_align_munmap(p, rc) /\ pid_tgid(p).lo \in DOMAIN munmap_hash)
            => /\ emitted' = IF rc = 0 THEN <<munmap_hash[pid_tgid(p).lo]>> ELSE <<>>
               /\ pid_tgid(p).lo \notin DOMAIN munmap_hash']_vars

\* C27: whenever no handler of tcp_v4_connect is in the middle of executing,
\* connect_start_times and connect_tracking hold the same set of keys, after
\* any interleaving of the entry and return handlers of different threads,
\* also while a store is at capacity.
C27_SameKeysWhenIdle ==
  (prog = "tcp_v4_connect" /\ \A p \in Pids : cpu[p] = Idle)
    => DOMAIN connect_start_times = DOMAIN connect_tracking

\* C28: every emission of a tcp_v4_connect event comes with exactly one
\* increment of branch_stats, at the index equal to the event's branch_type,
\* whatever the event's path_type.
C28_EmissionCountsItsBranch ==
  [][(prog = "tcp_v4_connect" /\ emitted' # <<>>
        /\ (\E p \in Pids : ThreadHandler(p)))
       => branch_stats' = [branch_stats EXCEPT ![emitted'[1].branch_type] = @ + 1]]_vars

\* C29: in every tcp_v4_connect event the tgid field is the upper 32 bits and
\* the pid field the lower 32 bits of the pid_tgid of the thread the handler
\* ran in.
C29_TgidIsUpperHalf ==
  [][\A p \in Pids :
       ((trace_tcp_v4_connect(p) \/ ConnectBranchProbes(p)
           \/ \E rc \in RetCodes : trace_tcp_v4_connect_return(p, rc))
          /\ emitted' # <<>>)
         => /\ emitted'[1].pid = pid_tgid(p).lo
            /\ emitted'[1].tgid = pid_tgid(p).hi]_vars

\* C30: the final event of a tcp_v4_connect invocation (the one the return
\* probe emits) has path_type PATH_SLOW if trace_regular_syn fired,
\* PATH_FASTOPEN if trace_fastopen_defer fired, PATH_ERROR if the return code
\* is non-zero and PATH_FAST otherwise; and path_stats is incremented once per
\* invocation, at that path_type: by the return probe when no probe has
\* classified the path, and not again when one has. (Stated for the
\* invocations whose latest probe before the return is the entry,
\* trace_regular_syn or trace_fastopen_defer.)
C30_PathClassReportedOnce ==
  [][\A p \in Pids, rc \in RetCodes :
       (trace_tcp_v4_connect_return(p, rc) /\ pid_tgid(p).lo \in DOMAIN connect_tracking)
         => LET rec == connect_tracking[pid_tgid(p).lo]
                final == IF rec.branch_type = CONNECT_REGULAR_SYN THEN PATH_SLOW
                         ELSE IF rec.branch_type = CONNECT_FASTOPEN_DEFER THEN PATH_FASTOPEN
                         ELSE IF rc # 0 THEN PATH_ERROR ELSE PATH_FAST
            IN rec.branch_type \in {CONNECT_ENTRY, CONNECT_REGULAR_SYN, CONNECT_FASTOPEN_DEFER}
                 => /\ emitted'[1].path_type = final
                    /\ rec.branch_type = CONNECT_ENTRY
                         => path_stats' = [path_stats EXCEPT ![final] = @ + 1]
                    /\ rec.branch_type # CONNECT_ENTRY => path_stats' = path_stats]_vars

\* C31: every event the tcp_v4_connect tracer emits on a failing branch (a
\* handler that sets path_type to PATH_ERROR) increments exactly one slot of
\* error_stats.
C31_FailingBranchCountsAnError ==
  [][\A p \in Pids :
       (ConnectBranchProbes(p) /\ emitted' # <<>>
          /\ emitted'[1].branch_type \in FailingBranches)
         => \E k \in DOMAIN error_stats :
              error_stats' = [error_stats EXCEPT ![k] = @ + 1]]_vars

\* C32: a firing of rss_stat that runs the raw and then the non-raw handler
\* emits exactly one event, whose owner pid and tgid and whose member and
\* counter value are those of that firing, and leaves no record of the thread
\* in rss_stat_hash; also when an earlier firing ran the raw handler only.
C32_EventOfOwnFiring ==
  [][\A p \in Pids :
       TRACEPOINT_PROBE_kmem_rss_stat(p)
         => /\ emitted' = <<[pid |-> pid_tgid(cpu[p].f.owner).lo,
                             tgid |-> pid_tgid(cpu[p].f.owner).hi,
                             ts |-> now,
                             member |-> cpu[p].f.member,
                             counter_value |-> cpu[p].f.size \div 2^12]>>
            /\ pid_tgid(p).lo \notin DOMAIN rss_stat_hash']_vars

\* C33: trace_handle_mm_fault_return, when the store holds a record of its
\* thread: with the VM_FAULT_ERROR bit set in the return value it emits nothing
\* and removes the record; otherwise it emits exactly one event whose address,
\* is_write and is_exec come from the address and flags of the thread's latest
\* entry, whose timestamp is that entry's start time in microseconds and whose
\* is_major is 1 exactly when the VM_FAULT_MAJOR bit is set, and removes the
\* record.
C33_FaultReturnReportsEntry ==
  [][\A p \in Pids, ret \in FaultRets :
       (trace_handle_mm_fault_return(p, ret) /\ pid_tgid(p).lo \in DOMAIN fault_entry)
         => LET e == Hist("fault_entry", p).rec
            IN /\ pid_tgid(p).lo \notin DOMAIN fault_entry'
               /\ IF (ret \div VM_FAULT_ERROR) % 2 = 1
                  THEN emitted' = <<>>
                  ELSE /\ Len(emitted') = 1
                       /\ emitted'[1].address = e.address
                       /\ emitted'[1].is_write = (IF e.flags % 2 = 1 THEN 1 ELSE 0)
                       /\ emitted'[1].is_exec = (IF (e.flags \div 256) % 2 = 1 THEN 1 ELSE 0)
                       /\ emitted'[1].ts_uptime_us = e.ts_start \div 1000
                       /\ emitted'[1].is_major =
                            (IF (ret \div VM_FAULT_MAJOR) % 2 = 1 THEN 1 ELSE 0)]_vars

\* The return probe has just reported a major instruction fault of a thread
\* that entered three times; the event carries the start time of the third entry.
C33_Witness ==
  /\ prog = "page_fault"
  /\ last.kind = "return" /\ last.s = "fault_entry"
  /\ Len(emitted) = 1
  /\ emitted[1].is_major = 1 /\ emitted[1].is_exec = 1 /\ emitted[1].is_write = 0
  /\ emitted[1].address = 8192
  /\ emitted[1].ts_uptime_us = (2 * TickNs) \div 1000
  /\ now = 3 * TickNs
  /\ fault_entry = EmptyMap

\* The claim of C34 for one operation: its return probe emits only on a record
\* of that operation's own store, with the start time of the thread's latest
\* entry of that operation (where one fired since the thread's last return of
\* it) and an end time, the time of the return, not before it; and it leaves
\* the stores of the other two operations as they are.
ZswapCorrelated(ret, p, store, name, others) ==
  ret => /\ UNCHANGED others
         /\ emitted' # <<>>
              => /\ pid_tgid(p) \in DOMAIN store
                 /\ emitted'[1].start_ts = store[pid_tgid(p)]
                 /\ Hist(name, p).rec # NoRec
                      => emitted'[1].start_ts = Hist(name, p).rec.ts
                 /\ emitted'[1].end_ts = now
                 /\ emitted'[1].end_ts >= emitted'[1].start_ts
                 /\ emitted'[1].pid = pid_tgid(p).lo
                 /\ emitted'[1].tgid = pid_tgid(p).hi

\* C34: the three zswap operations are correlated independently: a return
\* probe of store, load or invalidate emits an event only if an entry of the
\* same operation is recorded for the same pid_tgid, never because of an entry
\* of another operation, and every event has end_ts >= start_ts with start_ts
\* the time of the latest entry of that operation for that pid_tgid.
C34_OperationsIndependent ==
  [][\A p \in Pids, rc \in RetCodes :
       /\ ZswapCorrelated(trace_zswap_store_return(p, rc), p, stores, "stores",
                          <<loads, invalidates>>)
       /\ ZswapCorrelated(trace_zswap_load_return(p, rc), p, loads, "loads",
                          <<stores, invalidates>>)
       /\ ZswapCorrelated(trace_zswap_invalidate_return(p, rc), p, invalidates,
                          "invalidates", <<stores, loads>>)]_vars

\* A store return probe has just reported, with the start time of the store
\* entry, a thread that also has a load under way, entered earlier.
C34_Witness ==
  /\ prog = "zswap_runtime"
  /\ last.kind = "return" /\ last.s = "stores"
  /\ Len(emitted) = 1
  /\ emitted[1].start_ts = TickNs /\ emitted[1].end_ts = 2 * TickNs
  /\ \E p \in Pids : /\ emitted[1].pid = pid_tgid(p).lo
                     /\ pid_tgid(p) \in DOMAIN loads
                     /\ loads[pid_tgid(p)] = 0
                     /\ pid_tgid(p) \notin DOMAIN stores

\* C35: in the congestion-control tracer a socket is in socket_tracking exactly
\* when trace_assign_cc fired for it more recently than trace_cleanup_cc (the
\* store not being full): trace_assign_cc puts its socket in and
\* trace_cleanup_cc takes its socket out, either leaving every other socket as
\* it is; trace_init_cc, trace_set_cc and trace_reinit_cc leave socket_tracking
\* unchanged; and every probe firing emits exactly one event, whether or not
\* the socket is tracked.
C35_TrackedBetweenAssignAndCleanup ==
  [][\A p \in Pids, sk \in Socks :
       /\ trace_assign_cc(p, sk)
            => /\ (sk \in DOMAIN socket_tracking
                     \/ Cardinality(DOMAIN socket_tracking) < MaxEntries)
                    => sk \in DOMAIN socket_tracking'
               /\ DOMAIN socket_tracking' \ {sk} = DOMAIN socket_tracking \ {sk}
               /\ Len(emitted') = 1 /\ emitted'[1].event_type = EVENT_ASSIGN_CC
       /\ trace_cleanup_cc(p, sk)
            => /\ DOMAIN socket_tracking' = DOMAIN socket_tracking \ {sk}
               /\ Len(emitted') = 1 /\ emitted'[1].event_type = EVENT_CLEANUP_CC
       /\ (trace_init_cc(p, sk) \/ trace_set_cc(p, sk) \/ trace_reinit_cc(p, sk))
            => /\ socket_tracking' = socket_tracking
               /\ Len(emitted') = 1
               /\ emitted'[1].event_type \in {EVENT_INIT_CC, EVENT_SET_CC, EVENT_REINIT_CC}]_vars

\* A socket was assigned, initialised and cleaned up, each probe reporting one
\* event; the socket is tracked no more.
C35_Witness ==
  /\ prog = "tcp_congestion_control"
  /\ Len(since_poll["cc_events"].sent) = 3
  /\ since_poll["cc_events"].sent[1].event_type = EVENT_ASSIGN_CC
  /\ since_poll["cc_events"].sent[2].event_type = EVENT_INIT_CC
  /\ since_poll["cc_events"].sent[3].event_type = EVENT_CLEANUP_CC
  /\ since_poll["cc_events"].sent[1].conn = since_poll["cc_events"].sent[3].conn
  /\ since_poll["cc_events"].sent[2].conn = since_poll["cc_events"].sent[3].conn
  /\ emitted = <<since_poll["cc_events"].sent[3]>>
  /\ socket_tracking = EmptyMap

====
